---- MODULE Spec2Model ----
(***************************************************************************)
(* Kinetic parameter estimation pipeline of the ogum sintering suite:      *)
(*   MaterialCalibrator.fit        src/src/ogum/material_calibrator.py     *)
(*   build_master_curve            src/src/ogum/master_curve.py            *)
(*   bootstrap_ea                  src/src/ogum/stats.py                   *)
(*                                                                         *)
(* Floating-point values are modelled as extended rationals: a class       *)
(* (finite, +inf, -inf, nan) and, for finite values, a reduced fraction.   *)
(* Logarithms, exponentials and the least-squares regression are kept      *)
(* symbolic: a record naming the function and its (exact) arguments.       *)
(***************************************************************************)
EXTENDS Integers, Sequences, FiniteSets, TLC

VARIABLES pc, calib, master, boot, sovs, theta, api, fem, hist, report, worker, synth, diag

vars == <<pc, calib, master, boot, sovs, theta, api, fem, hist, report, worker, synth, diag>>

(***************************************************************************)
(* Bounds of the model and the values the inputs are drawn from.           *)
(***************************************************************************)
MaxLen == 3
MaxPoolLen == 2
MaxExps == 2
MaxBoot == 2

TimeValues == {0, 1, 2}
RampSteps == {-10, 0, 10}
DensityValues == {0, 50, 95, 100, 150}
PoolDensityValues == {50, 100}

(***************************************************************************)
(* IEEE-754 doubles as extended rationals.                                 *)
(***************************************************************************)
Abs(i) == IF i < 0 THEN -i ELSE i

Sign(i) == IF i < 0 THEN -1 ELSE IF i = 0 THEN 0 ELSE 1

RECURSIVE GCD(_, _)
GCD(a, b) == IF b = 0 THEN a ELSE GCD(b, a % b)

NaN == [cls |-> "nan", n |-> 0, d |-> 1]
PosInf == [cls |-> "pinf", n |-> 0, d |-> 1]
NegInf == [cls |-> "ninf", n |-> 0, d |-> 1]

\* the finite value n/d (d # 0), reduced, with a positive denominator
Fin(n, d) ==
    LET g == GCD(Abs(n), Abs(d))
    IN  [cls |-> "fin", n |-> (Sign(d) * n) \div g, d |-> Abs(d) \div g]

FromInt(i) == Fin(i, 1)
One == FromInt(1)

IsFinite(a) == a.cls = "fin"
IsNaN(a) == a.cls = "nan"
GtZero(a) == a.cls = "pinf" \/ (a.cls = "fin" /\ a.n > 0)
LtZero(a) == a.cls = "ninf" \/ (a.cls = "fin" /\ a.n < 0)
IsZero(a) == a.cls = "fin" /\ a.n = 0

\* a < b on finite values
FLess(a, b) == a.cls = "fin" /\ b.cls = "fin" /\ a.n * b.d < b.n * a.d

FNeg(a) ==
    CASE a.cls = "fin" -> Fin(-a.n, a.d)
      [] a.cls = "pinf" -> NegInf
      [] a.cls = "ninf" -> PosInf
      [] OTHER -> NaN

FAdd(a, b) ==
    CASE IsNaN(a) \/ IsNaN(b) -> NaN
      [] IsFinite(a) /\ IsFinite(b) -> Fin(a.n * b.d + b.n * a.d, a.d * b.d)
      [] IsFinite(a) -> b
      [] IsFinite(b) -> a
      [] a.cls = b.cls -> a
      [] OTHER -> NaN

FSub(a, b) == FAdd(a, FNeg(b))

FMul(a, b) ==
    CASE IsNaN(a) \/ IsNaN(b) -> NaN
      [] IsFinite(a) /\ IsFinite(b) -> Fin(a.n * b.n, a.d * b.d)
      [] IsZero(a) \/ IsZero(b) -> NaN
      [] GtZero(a) = GtZero(b) -> PosInf
      [] OTHER -> NegInf

\* numpy float division: x/0 is +-inf, 0/0 is nan (a warning, no exception);
\* the zero divisors of this program are all +0.0 (results of a - a)
FDiv(a, b) ==
    CASE IsNaN(a) \/ IsNaN(b) -> NaN
      [] IsZero(b) -> IF IsZero(a) THEN NaN
                      ELSE IF GtZero(a) THEN PosInf ELSE NegInf
      [] IsFinite(a) /\ IsFinite(b) -> Fin(a.n * b.d, a.d * b.n)
      [] IsFinite(a) -> FromInt(0)
      [] IsFinite(b) -> IF GtZero(a) = GtZero(b) THEN PosInf ELSE NegInf
      [] OTHER -> NaN

\* celsius + 273.15
KelvinOffset == Fin(5463, 20)
ToKelvin(c) == FAdd(c, KelvinOffset)

(***************************************************************************)
(* Experiments: tables of samples (time s, temperature C, density).        *)
(***************************************************************************)
Sample(t, T, d) == [t |-> t, T |-> T, d |-> d]

\* Section 3 of the specification: samples are sorted by time
SortedTimes(L) ==
    {ts \in [1..L -> TimeValues] : \A i \in 1..(L - 1) : ts[i] <= ts[i + 1]}

\* isothermal runs and linear ramps from 100 C
TemperatureProfiles(L) == {[i \in 1..L |-> 100 + step * (i - 1)] : step \in RampSteps}

FramesOfLen(L) ==
    {[i \in 1..L |-> Sample(ts[i], Ts[i], ds[i])] :
        ts \in SortedTimes(L), Ts \in TemperatureProfiles(L),
        ds \in [1..L -> DensityValues]}

Frames == UNION {FramesOfLen(L) : L \in 0..MaxLen}

\* runs on the unit time grid with a 10 C/step ramp, used for lists of experiments
GridFrame(ds) == [i \in 1..Len(ds) |-> Sample(i - 1, 100 + 10 * (i - 1), ds[i])]

GridFrames ==
    UNION {{GridFrame(ds) : ds \in [1..L -> PoolDensityValues]} : L \in 0..MaxPoolLen}

ExperimentLists == UNION {[1..N -> GridFrames] : N \in 0..MaxExps}

RECURSIVE Concat(_)
Concat(ss) == IF ss = <<>> THEN <<>> ELSE Head(ss) \o Concat(Tail(ss))

Column(df, c) == [i \in 1..Len(df) |-> FromInt(df[i][c])]

Indices(n) == [i \in 1..n |-> i]

\* the arrays the caller's table holds
Table(df) == [t |-> Column(df, "t"), T |-> Column(df, "T"), d |-> Column(df, "d")]

(***************************************************************************)
(* MaterialCalibrator.fit                                                  *)
(***************************************************************************)
\* the mask of line 88 without the finiteness test
RateMaskNoFinite(k) == GtZero(k)

RateMask(k) == GtZero(k) /\ IsFinite(k)

\* line 76 dividing the caller's array in place (x /= 100.0)
FractionInPlace(dens) ==
    [x |-> [j \in 1..Len(dens) |-> FDiv(dens[j], FromInt(100))],
     dens |-> [j \in 1..Len(dens) |-> FDiv(dens[j], FromInt(100))]]

\* line 76: x = df["DensidadePct"].to_numpy(float) / 100.0 is a new array;
\* dens is the caller's array after the statement
FractionArray(dens) ==
    [x |-> [j \in 1..Len(dens) |-> FDiv(dens[j], FromInt(100))], dens |-> dens]

\* the point computed from the difference between samples i and i+1
RatePoint(df, e, i) ==
    LET t == Column(df, "t")
        T == [j \in 1..Len(df) |-> ToKelvin(FromInt(df[j].T))]
        x == FractionArray(Column(df, "d")).x
        dx == FSub(x[i + 1], x[i])
        dt == FSub(t[i + 1], t[i])
        k_i == FDiv(FDiv(dx, dt), FSub(One, x[i]))
    IN  [e |-> e, i |-> i, T |-> T[i], k |-> k_i]

\* T_i[mask] with ln k_i[mask] of one experiment
MaskedPoints(df, e) ==
    LET all == [i \in 1..(Len(df) - 1) |-> RatePoint(df, e, i)]
    IN  SelectSeq(all, LAMBDA p : RateMask(p.k))

\* a variant of the loop that stops at the first experiment with < 2 samples
RECURSIVE FitLoopAbort(_, _, _)
FitLoopAbort(exps, e, pool) ==
    IF e > Len(exps) THEN pool
    ELSE IF Len(exps[e]) < 2 THEN pool
    ELSE LET pts == MaskedPoints(exps[e], e)
         IN  FitLoopAbort(exps, e + 1, IF pts # <<>> THEN Append(pool, pts) ELSE pool)

\* for df in exps: the list of per-experiment arrays (T_pool with ln_k_pool)
RECURSIVE FitLoop(_, _, _)
FitLoop(exps, e, pool) ==
    IF e > Len(exps) THEN pool
    ELSE IF Len(exps[e]) < 2 THEN FitLoop(exps, e + 1, pool)
    ELSE LET pts == MaskedPoints(exps[e], e)
         IN  FitLoop(exps, e + 1, IF pts # <<>> THEN Append(pool, pts) ELSE pool)

\* the regression on the kelvin temperatures instead of their reciprocals
RegressionOnKelvin(points) ==
    LET X == [j \in 1..Len(points) |-> points[j].T]
        Y == [j \in 1..Len(points) |-> [ln |-> points[j].k]]
    IN  [Ea |-> [f |-> "-slope*R/1000", X |-> X, Y |-> Y],
         A |-> [f |-> "exp(intercept)", X |-> X, Y |-> Y]]

\* np.polyfit(X, Y, 1) on X = 1/T, Y = ln k, and the conversion to (Ea_kJ, A)
Regression(points) ==
    LET X == [j \in 1..Len(points) |-> FDiv(One, points[j].T)]
        Y == [j \in 1..Len(points) |-> [ln |-> points[j].k]]
    IN  [Ea |-> [f |-> "-slope*R/1000", X |-> X, Y |-> Y],
         A |-> [f |-> "exp(intercept)", X |-> X, Y |-> Y]]

NoParams == [Ea |-> NaN, A |-> NaN]

\* lines 93-106: the pooled arrays, then the regression, or ValueError
FitPooled(T_pool) ==
    IF T_pool = <<>>
    THEN [raised |-> TRUE, error |-> "ValueError", msg |-> "No valid data for fitting",
          pool |-> <<>>, params |-> NoParams]
    ELSE [raised |-> FALSE, error |-> "", msg |-> "",
          pool |-> Concat(T_pool), params |-> Regression(Concat(T_pool))]

\* line 67: a single DataFrame is wrapped into a list
Normalise(kind, experiments) == IF kind = "frame" THEN <<experiments>> ELSE experiments

fit(kind, experiments) == FitPooled(FitLoop(Normalise(kind, experiments), 1, <<>>))

\* the caller's tables after fit: lines 74-76 are executed for every experiment
FitTables(exps) ==
    [e \in 1..Len(exps) |->
        [t |-> Column(exps[e], "t"), T |-> Column(exps[e], "T"),
         d |-> FractionArray(Column(exps[e], "d")).dens]]

(***************************************************************************)
(* build_master_curve and _estimate_activation_energy                      *)
(***************************************************************************)
RECURSIVE SeqMax(_)
SeqMax(s) == IF Len(s) = 1 THEN s[1]
             ELSE LET m == SeqMax(Tail(s)) IN IF FLess(s[1], m) THEN m ELSE s[1]

RECURSIVE SeqSum(_)
SeqSum(s) == IF s = <<>> THEN FromInt(0) ELSE FAdd(Head(s), SeqSum(Tail(s)))

\* np.mean of a non-empty array
Mean(s) == FDiv(SeqSum(s), FromInt(Len(s)))

\* -np.log(1 - x) / t, symbolic, with the class and sign the float result has
EffectiveRate(x, t) ==
    LET neglog == CASE IsNaN(x) -> [cls |-> "nan", sgn |-> 0]
                    [] FLess(One, x) -> [cls |-> "nan", sgn |-> 0]
                    [] x = One -> [cls |-> "pinf", sgn |-> 1]
                    [] GtZero(x) -> [cls |-> "fin", sgn |-> 1]
                    [] IsZero(x) -> [cls |-> "fin", sgn |-> 0]
                    [] OTHER -> [cls |-> "fin", sgn |-> -1]
        q == CASE neglog.cls = "nan" -> neglog
               [] IsZero(t) -> IF neglog.cls = "fin" /\ neglog.sgn = 0
                               THEN [cls |-> "nan", sgn |-> 0]
                               ELSE [cls |-> IF neglog.sgn > 0 THEN "pinf" ELSE "ninf",
                                     sgn |-> neglog.sgn]
               [] OTHER -> neglog
    IN  [cls |-> q.cls, sgn |-> q.sgn, x |-> x, t |-> t]

\* the mask of line 18 with x <= 1 in place of x < 1
ValidMaskClosed(t, x) == GtZero(t) /\ GtZero(x) /\ (FLess(x, One) \/ x = One)

\* line 18: (time > 0) & (0 < x) & (x < 1)
ValidMask(t, x) == GtZero(t) /\ GtZero(x) /\ FLess(x, One)

\* lines 15-17 scaling the caller's array in place (no copy)
ScaledInPlace(dens) ==
    IF FLess(One, SeqMax(dens))
    THEN [x |-> [i \in 1..Len(dens) |-> FDiv(dens[i], FromInt(100))],
          dens |-> [i \in 1..Len(dens) |-> FDiv(dens[i], FromInt(100))]]
    ELSE [x |-> dens, dens |-> dens]

\* lines 15-17: x is a copy of dens, divided by 100 when its maximum exceeds 1;
\* dens is the caller's array after the statement
ScaledCopy(dens) ==
    IF FLess(One, SeqMax(dens))
    THEN [x |-> [i \in 1..Len(dens) |-> FDiv(dens[i], FromInt(100))], dens |-> dens]
    ELSE [x |-> dens, dens |-> dens]

\* line 19 with the threshold 1
TooFewNone(count) == count < 1

\* line 19: mask.sum() < 2
TooFew(count) == count < 2

_estimate_activation_energy(time, temp_c, dens) ==
    IF dens = <<>>
    THEN [raised |-> TRUE, error |-> "ValueError", msg |-> "zero-size array",
          pool |-> <<>>, Ea |-> NaN, dens |-> dens]
    ELSE
    LET sc == ScaledCopy(dens)
        x == sc.x
        valid == SelectSeq(Indices(Len(x)), LAMBDA i : ValidMask(time[i], x[i]))
        pool == [j \in 1..Len(valid) |->
                    [e |-> 1, i |-> valid[j], T |-> ToKelvin(temp_c[valid[j]]),
                     k |-> EffectiveRate(x[valid[j]], time[valid[j]])]]
    IN  IF TooFew(Len(valid))
        THEN [raised |-> TRUE, error |-> "ValueError", msg |-> "Insufficient data",
              pool |-> <<>>, Ea |-> NaN, dens |-> sc.dens]
        ELSE [raised |-> FALSE, error |-> "", msg |-> "",
              pool |-> pool, Ea |-> Regression(pool).Ea, dens |-> sc.dens]

Required == {"time", "temperature", "density"}

Methods == {"arrhenius", "wlf"}

ColumnSets == {Required, {"time", "temperature"}}

\* line 54 without the conversion to kelvin
ReferenceCelsius(T_c) == Mean(T_c)

\* line 54: T_ref = np.mean(T_c) + 273.15
Reference(T_c) == ToKelvin(Mean(T_c))

\* line 56 with the two reciprocals exchanged
ShiftFactorInverted(Ea, T_k, T_ref) ==
    LET delta == FSub(FDiv(One, T_ref), FDiv(One, T_k))
    IN  IF IsZero(delta) THEN [exact |-> TRUE, v |-> One, Ea |-> Ea, delta |-> delta]
        ELSE [exact |-> FALSE, v |-> NaN, Ea |-> Ea, delta |-> delta]

\* line 56: exp((Ea*1000/R) * (1/T_k - 1/T_ref)); exp(c * 0.0) is exactly 1.0
ShiftFactor(Ea, T_k, T_ref) ==
    LET delta == FSub(FDiv(One, T_k), FDiv(One, T_ref))
    IN  IF IsZero(delta) THEN [exact |-> TRUE, v |-> One, Ea |-> Ea, delta |-> delta]
        ELSE [exact |-> FALSE, v |-> NaN, Ea |-> Ea, delta |-> delta]

\* line 57: t * a_T; t * 1.0 is t and 0.0 * a_T is 0.0 (a_T is positive and finite)
MasterTime(t, a_T) ==
    IF a_T.exact THEN [exact |-> TRUE, v |-> FMul(t, a_T.v), t |-> t, a_T |-> a_T]
    ELSE IF IsZero(t) THEN [exact |-> TRUE, v |-> t, t |-> t, a_T |-> a_T]
    ELSE [exact |-> FALSE, v |-> NaN, t |-> t, a_T |-> a_T]

\* dens is the caller's density array as the call leaves it
NoCurve(err, msg, dens) ==
    [raised |-> TRUE, error |-> err, msg |-> msg, pool |-> <<>>, Ea |-> NaN,
     a_T |-> <<>>, rows |-> <<>>, dens |-> dens]

\* the only element of a one-element set
Only(S) == CHOOSE x \in S : TRUE

\* lines 54-66, for the estimate est of line 53
Curve(df, est) ==
    IF est.raised THEN NoCurve(est.error, est.msg, est.dens)
    ELSE
    LET t == Column(df, "t")
        T_c == Column(df, "T")
        dens == est.dens
        T_ref == Reference(T_c)
        a_T == [i \in 1..Len(df) |-> ShiftFactor(est.Ea, ToKelvin(T_c[i]), T_ref)]
    IN  [raised |-> FALSE, error |-> "", msg |-> "", pool |-> est.pool,
         Ea |-> est.Ea, a_T |-> a_T,
         rows |-> [i \in 1..Len(df) |->
                     [master_time |-> MasterTime(t[i], a_T[i]),
                      master_density |-> dens[i],
                      activation_energy |-> est.Ea]],
         dens |-> dens]

build_master_curve(df, method, columns) ==
    IF method # "arrhenius"
    THEN NoCurve("ValueError", "Only 'arrhenius' method is supported", Column(df, "d"))
    ELSE IF ~(Required \subseteq columns)
    THEN NoCurve("ValueError", "Input DataFrame must contain columns", Column(df, "d"))
    ELSE Only({Curve(df, est) :
                  est \in {_estimate_activation_energy(Column(df, "t"), Column(df, "T"),
                                                       Column(df, "d"))}})

(***************************************************************************)
(* bootstrap_ea                                                            *)
(***************************************************************************)
BootFrames == {<<>>, GridFrame(<<50, 100>>), GridFrame(<<100, 50>>)}

BootLists == UNION {[1..N -> BootFrames] : N \in 0..MaxExps}

\* MaterialCalibrator.__init__(self, experiments): the argument is required
MaterialCalibrator(args) ==
    IF Len(args) < 1
    THEN [raised |-> TRUE, error |-> "TypeError",
          msg |-> "__init__() missing 1 required positional argument: 'experiments'"]
    ELSE [raised |-> FALSE, error |-> "", msg |-> ""]

\* subscripting the tuple (Ea_kJ, A) that fit returns
TupleGetItem(params, key) ==
    IF key.type = "str"
    THEN [raised |-> TRUE, error |-> "TypeError",
          msg |-> "tuple indices must be integers or slices, not str", v |-> NaN]
    ELSE [raised |-> FALSE, error |-> "", msg |-> "",
          v |-> IF key.v = 0 THEN params.Ea ELSE params.A]

\* lines 45-48 on the caller's tables: pd.concat copies the drawn experiments
\* and fit reads the copy
ResampleTables(tables, idx) == tables

\* lines 44-49: one pass of the loop body for the drawn indices idx
Resample(experiments, idx) ==
    LET sample == [j \in 1..Len(idx) |-> experiments[idx[j] + 1]]
        combined == Concat(sample)
        calib_ == MaterialCalibrator(<<>>)
        params == fit("frame", combined)
        ea == TupleGetItem(params.params, [type |-> "str", v |-> "Ea"])
    IN  IF calib_.raised THEN [raised |-> TRUE, error |-> calib_.error, Ea |-> NaN]
        ELSE IF params.raised THEN [raised |-> TRUE, error |-> params.error, Ea |-> NaN]
        ELSE IF ea.raised THEN [raised |-> TRUE, error |-> ea.error, Ea |-> NaN]
        ELSE [raised |-> FALSE, error |-> "", Ea |-> ea.v]

\* what np.percentile does with an empty array depends on the numpy release:
\* it returns nan (with a warning) or raises IndexError
EmptyPercentileOutcomes == {"nan", "IndexError"}

NoPercentile == [f |-> "nan", q |-> 0, of |-> <<>>]

NoInterval == [low |-> NoPercentile, high |-> NoPercentile]

\* lines 51-52: np.percentile(eas, [2.5, 97.5])
Percentile(eas, onEmpty) ==
    IF eas = <<>>
    THEN IF onEmpty = "nan"
         THEN [raised |-> FALSE, error |-> "", ci |-> NoInterval]
         ELSE [raised |-> TRUE, error |-> "IndexError", ci |-> NoInterval]
    ELSE [raised |-> FALSE, error |-> "",
          ci |-> [low |-> [f |-> "percentile", q |-> 25, of |-> eas],
                  high |-> [f |-> "percentile", q |-> 975, of |-> eas]]]

(***************************************************************************)
(* SOVSSolver                                     src/ogum/sovs.py         *)
(***************************************************************************)
MaxGrid == 3

\* the gas constant, 8.314 J/(mol K)
R == Fin(4157, 500)

\* a keyword the call does not pass
Absent == [cls |-> "absent", n |-> 0, d |-> 1]

\* keyword arguments of a constructor call SOVSSolver(Ea=.., A=.., ..)
SovsKeywords ==
    [Ea : {FromInt(100000)},
     A : {FromInt(1), FromInt(2)},
     m : {Absent, One, Fin(1, 2)},
     rho0 : {Absent, FromInt(0), Fin(1, 2)},
     x0 : {Absent, FromInt(0)},
     dx : {Absent, Fin(1, 1000)}]

NoSolver == [Ea |-> NaN, A |-> NaN, m |-> NaN, rho0 |-> NaN, R_const |-> NaN]

\* __init__(self, Ea, A, m=1.0, rho0=0.6, R_const=R): python binds the
\* keywords to the parameters and rejects a keyword that names none
SovsInit(kw) ==
    IF kw.x0 # Absent \/ kw.dx # Absent
    THEN [raised |-> TRUE, error |-> "TypeError",
          msg |-> "__init__() got an unexpected keyword argument", self |-> NoSolver]
    ELSE IF kw.Ea = Absent \/ kw.A = Absent
    THEN [raised |-> TRUE, error |-> "TypeError",
          msg |-> "__init__() missing required positional argument", self |-> NoSolver]
    ELSE [raised |-> FALSE, error |-> "", msg |-> "",
          self |-> [Ea |-> kw.Ea, A |-> kw.A,
                    m |-> IF kw.m = Absent THEN One ELSE kw.m,
                    rho0 |-> IF kw.rho0 = Absent THEN Fin(3, 5) ELSE kw.rho0,
                    R_const |-> R]]

\* np.exp(-z) is 0.0 once z exceeds 745.14 (below the smallest subnormal
\* double, 2^-1074)
ExpZeroBelow == Fin(74514, 100)

\* a variant in which the exponential never underflows
ArrheniusPositive(self, T) == IF IsNaN(T) THEN "nan" ELSE "pos"

\* exp(-Ea / (R_const * T)) of line 47: positive, 0.0 on underflow, nan for a
\* nan temperature
Arrhenius(self, T) ==
    IF IsNaN(T) THEN "nan"
    ELSE IF FLess(ExpZeroBelow, FDiv(self.Ea, FMul(self.R_const, T))) THEN "zero"
    ELSE "pos"

\* (1.0 - rho) ** m: a negative base with a fractional exponent is nan
PowerTerm(rho, m) ==
    LET base == FSub(One, rho)
    IN  IF GtZero(base) THEN "pos"
        ELSE IF IsZero(base) THEN "zero"
        ELSE IF m.d # 1 THEN "nan"
        ELSE IF m.n % 2 = 0 THEN "pos" ELSE "neg"

\* _ode: the class of A * exp(-Ea/(R T)) * (1 - rho)^m
_ode(self, T, rho) ==
    LET a == Arrhenius(self, T)
        p == PowerTerm(rho, self.m)
    IN  IF a = "nan" \/ p = "nan" THEN "nan"
        ELSE IF a = "zero" \/ p = "zero" \/ IsZero(self.A) THEN "zero"
        ELSE IF GtZero(self.A) = (p = "pos") THEN "pos" ELSE "neg"

\* a numpy array: its shape and its values in order
Array(shape, v) == [shape |-> shape, v |-> v]

\* the first index of T that holds nan, 0 when there is none
FirstNaN(T) ==
    IF \E i \in 1..Len(T) : IsNaN(T[i])
    THEN CHOOSE i \in 1..Len(T) : IsNaN(T[i]) /\ \A j \in 1..(i - 1) : ~IsNaN(T[j])
    ELSE 0

\* the results scipy's solve_ivp can give on the grid t: status 0 with a
\* value for every point of t_eval, or status -1 ("required step size is less
\* than spacing between numbers") with the values of the points reached.
\* np.interp gives nan on every interval that ends in a nan temperature: each
\* step into that interval is rejected (its error norm is nan) and halved
\* until the step size collapses.  The points before the interval are
\* reached; its left end only when a step happens to end on it.
IvpOutcomes(self, t, T) ==
    LET n == Len(t)
        q == FirstNaN(T)
    IN  IF q = 0 THEN {[status |-> 0, reached |-> n]}
        ELSE IF q <= 2 THEN {[status |-> -1, reached |-> 0]}
        ELSE {[status |-> -1, reached |-> j] : j \in {q - 2, q - 1}}

\* solve_ivp(self._ode, (t[0], t[-1]), [rho0], t_eval=t): sol.y has one row
\* with a value per reached point, or is an empty list when no point was
\* reached.  The value at t[0] is rho0; with a zero right-hand side every
\* stage is 0 and the state never changes.
solve_ivp(self, t, T, outcome) ==
    LET rate0 == _ode(self, T[1], self.rho0)
        y == [i \in 1..outcome.reached |->
                 IF i = 1 \/ rate0 = "zero" THEN self.rho0
                 ELSE [cls |-> "rk45", rho0 |-> self.rho0, rate0 |-> rate0,
                       t |-> t[i], t0 |-> t[1]]]
    IN  [status |-> outcome.status,
         y |-> IF outcome.reached = 0 THEN <<>> ELSE <<y>>]

NoDensity == <<>>

\* solve(self, t, T), lines 68-79: the shape checks, then sol.y[0]
solve(self, t, T, outcome) ==
    IF t.shape # T.shape
    THEN [raised |-> TRUE, error |-> "ValueError", status |-> 0, rho |-> NoDensity]
    ELSE IF Len(t.shape) # 1
    THEN [raised |-> TRUE, error |-> "ValueError", status |-> 0, rho |-> NoDensity]
    ELSE IF t.v = <<>>
    THEN [raised |-> TRUE, error |-> "IndexError", status |-> 0, rho |-> NoDensity]
    ELSE LET sol == solve_ivp(self, t.v, T.v, outcome)
         IN  IF sol.y = <<>>
             THEN [raised |-> TRUE, error |-> "IndexError", status |-> sol.status,
                   rho |-> NoDensity]
             ELSE [raised |-> FALSE, error |-> "", status |-> sol.status,
                   rho |-> sol.y[1]]

\* strictly increasing time grids 0, 1, 2, .. and constant temperature profiles
\* (kelvin), as 1-D arrays, as 2-D arrays, with one temperature too many, or
\* with a nan as the last temperature
Grid(n) == [i \in 1..n |-> FromInt(i - 1)]

Profile(n, T) == [i \in 1..n |-> FromInt(T)]

SovsTemperatures == {10, 1000}

SolveArguments ==
    {[t |-> Array(<<n>>, Grid(n)), T |-> Array(<<n>>, Profile(n, T))] :
        n \in 0..MaxGrid, T \in SovsTemperatures}
    \cup {[t |-> Array(<<n>>, Grid(n)), T |-> Array(<<n + 1>>, Profile(n + 1, 1000))] :
             n \in 1..2}
    \cup {[t |-> Array(<<1, n>>, Grid(n)), T |-> Array(<<1, n>>, Profile(n, 1000))] :
             n \in 1..2}
    \cup {[t |-> Array(<<n>>, Grid(n)),
           T |-> Array(<<n>>, [Profile(n, 1000) EXCEPT ![n] = NaN])] : n \in 2..3}

(***************************************************************************)
(* calculate_log_theta                        src/src/ogum/processing.py   *)
(***************************************************************************)
\* a column name: a base name and what follows it ("Time_s" + "_1")
Col(base, suffix) == [base |-> base, suffix |-> suffix]

NoColumn == Col("", "")

\* c.startswith(prefix), for names whose bases are not prefixes of each other
StartsWith(c, prefix) == c # NoColumn /\ c.base = prefix

\* the lookup by the exact name instead of the prefix
FindColumnExact(columns, prefix) ==
    IF \E i \in 1..Len(columns) : columns[i] = Col(prefix, "")
    THEN Col(prefix, "")
    ELSE NoColumn

\* next((c for c in df.columns if c.startswith(prefix)), None)
FindColumn(columns, prefix) ==
    IF \E i \in 1..Len(columns) : StartsWith(columns[i], prefix)
    THEN columns[CHOOSE i \in 1..Len(columns) :
                    /\ StartsWith(columns[i], prefix)
                    /\ \A j \in 1..(i - 1) : ~StartsWith(columns[j], prefix)]
    ELSE NoColumn

ThetaColumns == <<Col("Time_s", ""), Col("Temperature_C", ""), Col("DensidadePct", "")>>

ThetaColumnLists ==
    {ThetaColumns,
     <<Col("Time_s", "_1"), Col("Temperature_C", "_1"), Col("DensidadePct", "_1")>>,
     <<Col("Temperature_C", ""), Col("DensidadePct", "")>>,
     <<Col("Time_s", ""), Col("DensidadePct", "")>>,
     <<Col("Time_s", ""), Col("Temperature_C", "")>>}

\* python truth value of None or a number
Truthy(v) == v # Absent /\ ~IsZero(v)

\* a or b
PyOr(a, b) == IF Truthy(a) THEN a ELSE b

\* lines 28-29: energia_ativacao_kj, else kwargs.get("Ea_kJ") or kwargs.get("Ea_kj")
BindEnergy(args) ==
    IF args.energia # Absent THEN args.energia ELSE PyOr(args.Ea_kJ, args.Ea_kj)

\* the arguments that carry the activation energy (kJ/mol)
EnergyArguments ==
    [energia : {Absent, FromInt(0), FromInt(60)},
     Ea_kJ : {Absent, FromInt(0), FromInt(60)},
     Ea_kj : {Absent, FromInt(0), FromInt(60)}]

Positional(v) == [energia |-> v, Ea_kJ |-> Absent, Ea_kj |-> Absent]

\* line 55: (1/T_k) * exp(-Ea_j / (R * T_k)), positive for these energies
ThetaInst(Ea_kJ, T_k) == [cls |-> "pos", Ea |-> Ea_kJ, T |-> T_k]

\* the class of cumtrapz(theta_inst, time, initial=0)[i]: the sum of the first
\* i - 1 increments dt * (theta_j + theta_j+1) / 2, each with the sign of dt
Integrated(time, theta_inst, i) ==
    LET inc == [j \in 1..(i - 1) |->
                   IF theta_inst[j].cls = "pos" /\ theta_inst[j + 1].cls = "pos"
                   THEN FSub(time[j + 1], time[j]) ELSE NaN]
        pos == \E j \in 1..(i - 1) : GtZero(inc[j])
        neg == \E j \in 1..(i - 1) : LtZero(inc[j])
    IN  IF \E j \in 1..(i - 1) : IsNaN(inc[j]) THEN "nan"
        ELSE IF pos /\ neg THEN "mixed"
        ELSE IF pos THEN "pos"
        ELSE IF neg THEN "neg"
        ELSE "zero"

\* line 59 without the replacement
SafeIntKept(integrated) == integrated

\* line 59: np.where(integrated == 0, np.finfo(float).tiny, integrated)
SafeInt(integrated) == IF integrated = "zero" THEN "tiny" ELSE integrated

\* lines 60-61: np.log10, then every non-finite value becomes nan
LogTheta(safe_int) ==
    LET log10 == CASE safe_int \in {"pos", "tiny"} -> "fin"
                   [] safe_int = "zero" -> "ninf"
                   [] safe_int = "mixed" -> "mixed"
                   [] OTHER -> "nan"
    IN  [cls |-> IF log10 \in {"fin", "mixed"} THEN log10 ELSE "nan", of |-> safe_int]

NoTable(err, msg) == [raised |-> TRUE, error |-> err, msg |-> msg, Ea |-> Absent, rows |-> <<>>]

calculate_log_theta(df, columns, args) ==
    LET energia_ativacao_kj == BindEnergy(args)
        time_col == FindColumn(columns, "Time_s")
        temp_col == FindColumn(columns, "Temperature_C")
        dens_col == FindColumn(columns, "DensidadePct")
    IN  IF energia_ativacao_kj = Absent
        THEN NoTable("TypeError", "missing required argument 'energia_ativacao_kj'")
        ELSE IF time_col = NoColumn \/ temp_col = NoColumn \/ dens_col = NoColumn
        THEN NoTable("ValueError", "Required columns missing")
        ELSE IF Len(df) < 2
        THEN NoTable("ValueError", "Insufficient data for integration")
        ELSE
        LET time == Column(df, "t")
            T_k == [i \in 1..Len(df) |-> ToKelvin(FromInt(df[i].T))]
            theta_inst == [i \in 1..Len(df) |-> ThetaInst(energia_ativacao_kj, T_k[i])]
        IN  [raised |-> FALSE, error |-> "", msg |-> "", Ea |-> energia_ativacao_kj,
             rows |-> [i \in 1..Len(df) |->
                         [logtheta |-> LogTheta(SafeInt(Integrated(time, theta_inst, i))),
                          valor |-> FromInt(df[i].d),
                          tempo_s |-> time[i]]]]

\* the caller's table after calculate_log_theta: lines 49-61 build new arrays
\* (+ 273.15, cumtrapz, np.where, np.log10) and line 61 writes into the last
ThetaTable(df, columns, args) == Table(df)

\* experiments with sorted times
ThetaFrames ==
    UNION {{[i \in 1..L |-> Sample(ts[i], Ts[i], 50)] :
               ts \in SortedTimes(L), Ts \in TemperatureProfiles(L)} : L \in 0..MaxLen}

\* calls with the energy passed positionally on sorted experiments, and calls
\* with every combination of energy arguments and column names on grid runs
ThetaCalls ==
    {[df |-> df, columns |-> ThetaColumns, args |-> Positional(FromInt(e))] :
        df \in ThetaFrames, e \in {0, 60}}
    \cup {[df |-> df, columns |-> columns, args |-> args] :
             df \in GridFrames, columns \in ThetaColumnLists, args \in EnergyArguments}

(***************************************************************************)
(* POST /calc-master      src/src/ogum/api/router.py and src/ogum/api.py   *)
(***************************************************************************)
\* the handler of src/src/ogum/api/router.py and the one of src/ogum/api.py
ApiVariants == {"router", "legacy"}

\* JSON null (python None)
Null == [cls |-> "null", of |-> "none"]

\* the request bodies: lists of equal length, times in any order
MasterInputs ==
    UNION {[time_s : [1..L -> TimeValues],
            temperature_c : {[i \in 1..L |-> 100]},
            density_pct : {[i \in 1..L |-> 50]},
            energia_ativacao_kj : {0, 60}] : L \in 0..2}

NoContent == [logtheta |-> <<>>, valor |-> <<>>, tempo_s |-> <<>>]

\* the handler: the table of calculate_log_theta turned into lists; only the
\* router variant replaces nan by None (router.py line 56)
calc_master(variant, input) ==
    LET df == [i \in 1..Len(input.time_s) |->
                  Sample(input.time_s[i], input.temperature_c[i], input.density_pct[i])]
        df_out == calculate_log_theta(df, ThetaColumns,
                                      Positional(FromInt(input.energia_ativacao_kj)))
        n == Len(df_out.rows)
    IN  IF df_out.raised
        THEN [raised |-> TRUE, error |-> df_out.error, df_out |-> df_out,
              content |-> NoContent]
        ELSE [raised |-> FALSE, error |-> "", df_out |-> df_out,
              content |->
                 [logtheta |-> [i \in 1..n |->
                                  IF variant = "router" /\ df_out.rows[i].logtheta.cls = "nan"
                                  THEN Null ELSE df_out.rows[i].logtheta],
                  valor |-> [i \in 1..n |-> df_out.rows[i].valor],
                  tempo_s |-> [i \in 1..n |-> df_out.rows[i].tempo_s]]]

\* the framework's answer: an exception in the handler, or a nan in the
\* content (json.dumps(..., allow_nan=False) raises ValueError), is answered
\* with 500 Internal Server Error; otherwise the content is sent with 200
Respond(result) ==
    IF result.raised THEN [status |-> 500, body |-> NoContent]
    ELSE IF \E i \in 1..Len(result.content.logtheta) :
               result.content.logtheta[i].cls = "nan"
    THEN [status |-> 500, body |-> NoContent]
    ELSE [status |-> 200, body |-> result.content]

(***************************************************************************)
(* /master-curve, /calibrate            src/src/ogum/api/routes.py         *)
(* /processing/filter, /processing/activation-energy     src/api/main.py   *)
(***************************************************************************)
\* the record lists of the requests
RouteFrames ==
    BootFrames \cup {<<Sample(1, 100, 50), Sample(2, 110, 95)>>}

NoResult == [form |-> "none"]

Raised(err) == [raised |-> TRUE, error |-> err, status_code |-> 0, content |-> NoResult]

\* raise HTTPException(status_code=...)
HTTPException(code) ==
    [raised |-> TRUE, error |-> "HTTPException", status_code |-> code, content |-> NoResult]

Returned(content) == [raised |-> FALSE, error |-> "", status_code |-> 0, content |-> content]

\* routes.py lines 66-72: an empty record list gives a DataFrame without columns
master_curve(records) ==
    Only({IF curve.raised THEN Raised(curve.error)
          ELSE Returned([form |-> "MasterCurveResponse",
                         master_time |-> [i \in 1..Len(curve.rows) |->
                                             curve.rows[i].master_time],
                         master_density |-> [i \in 1..Len(curve.rows) |->
                                                curve.rows[i].master_density],
                         activation_energy |-> curve.rows[1].activation_energy]) :
          curve \in {build_master_curve(records, "arrhenius",
                                        IF records = <<>> THEN {} ELSE Required)}})

\* routes.py lines 89-98: df["Time_s"] of the empty DataFrame raises KeyError
calibrate(records) ==
    IF records = <<>> THEN Raised("KeyError")
    ELSE Only({IF r.raised THEN Raised(r.error)
               ELSE Returned([form |-> "CalibrateResponse",
                              Ea |-> r.params.Ea, A |-> r.params.A]) :
               r \in {fit("frame", records)}})

\* core/solver.py line 25: scipy's savgol_filter (mode "interp") on n points
apply_savitzky_golay_filter(n, window_length, polyorder) ==
    IF polyorder >= window_length THEN Raised("ValueError")
    ELSE IF window_length > n THEN Raised("ValueError")
    ELSE Returned([form |-> "filtered", n |-> n, window_length |-> window_length,
                   polyorder |-> polyorder])

FilterRequests == [n : 1..3, window_length : {0, 1, 2, 3, 5}, polyorder : {0, 1, 3}]

\* api/main.py lines 51-64
process_filter(request) ==
    IF request.window_length <= 0 \/ request.window_length % 2 = 0
    THEN HTTPException(400)
    ELSE LET filtered == apply_savitzky_golay_filter(request.n, request.window_length,
                                                     request.polyorder)
         IN  IF filtered.raised THEN filtered
             ELSE Returned([form |-> "FilterResponse", n |-> request.n,
                            filtered_data |-> filtered.content])

\* core/solver.py lines 46-61: linregress refuses empty inputs and inputs whose
\* x values are all the same
calculate_activation_energy(temperatures, rates) ==
    IF Len(temperatures) # Len(rates) THEN Raised("ValueError")
    ELSE IF temperatures = <<>> THEN Raised("ValueError")
    ELSE IF Len(temperatures) > 1 /\ \A i \in 1..Len(temperatures) :
                                        temperatures[i] = temperatures[1]
    THEN Raised("ValueError")
    ELSE Returned([form |-> "linregress", x |-> temperatures, y |-> rates])

\* temperatures in kelvin with as many or fewer rates
EnergyRequests ==
    UNION {[temperatures : [1..n -> {300, 400}], rates : {[i \in 1..m |-> i] : m \in {0, n}}] :
              n \in {0, 2}}

\* api/main.py lines 68-80
compute_activation_energy(request) ==
    IF Len(request.temperatures) # Len(request.rates) THEN HTTPException(400)
    ELSE LET result == calculate_activation_energy(request.temperatures, request.rates)
         IN  IF result.raised THEN result
             ELSE Returned([form |-> "ActivationEnergyResponse", of |-> result.content])

\* the framework's answer to a handler: an HTTPException gives its status
\* code, any other exception leaves the handler and is answered with 500
\* Internal Server Error, a returned model is sent with 200
Answer(result) ==
    IF ~result.raised THEN [status |-> 200, body |-> result.content]
    ELSE IF result.error = "HTTPException"
    THEN [status |-> result.status_code, body |-> NoResult]
    ELSE [status |-> 500, body |-> NoResult]

(***************************************************************************)
(* FEM jobs                       src/api/fem_router.py, src/fem/solver.py *)
(***************************************************************************)
\* job ids drawn by uuid4 for POST /fem/simulation
UuidJobs == {"u1", "u2"}

\* "abc" is a job whose status file was put in place beforehand, "example"
\* the job of solver.main()
Jobs == UuidJobs \cup {"abc", "example"}

NoFile == [exists |-> FALSE]

File(content) == [exists |-> TRUE, content |-> content]

Running == [status |-> "running"]

Completed(job_id) ==
    [status |-> "completed", image_path |-> <<"fem_output", job_id, "png">>,
     data_path |-> <<"fem_output", job_id, "xdmf">>]

Failed(exc) == [status |-> "failed", error |-> exc]

NoTask == [state |-> "none", nargs |-> 0, error |-> ""]

\* the status query writing the pending status it reports
StatusCreatesFile(files, job_id) ==
    IF ~files[job_id].exists
    THEN [response |-> [status |-> "pending"],
          files |-> [files EXCEPT ![job_id] = File([status |-> "pending"])]]
    ELSE [response |-> files[job_id].content, files |-> files]

\* fem_router.py lines 42-48; files is the directory fem_output after the call
fem_simulation_status(files, job_id) ==
    IF ~files[job_id].exists
    THEN [response |-> [status |-> "pending"], files |-> files]
    ELSE [response |-> files[job_id].content, files |-> files]

\* solver.py lines 23-45: binding the arguments (seven are required), then the
\* status file is written with "running"
RunBegin(files, job_id, nargs) ==
    IF nargs < 7
    THEN [task |-> [state |-> "ended", nargs |-> nargs, error |-> "TypeError"],
          files |-> files]
    ELSE [task |-> [state |-> "running", nargs |-> nargs, error |-> ""],
          files |-> [files EXCEPT ![job_id] = File(Running)]]

\* what the body of the try block does: it runs through or raises
SolveOutcomes == {"ok", "RuntimeError"}

\* solver.py lines 139-151
RunEnd(files, job_id, task, outcome) ==
    IF outcome = "ok"
    THEN [task |-> [task EXCEPT !.state = "ended"],
          files |-> [files EXCEPT ![job_id] = File(Completed(job_id))]]
    ELSE [task |-> [task EXCEPT !.state = "ended", !.error = outcome],
          files |-> [files EXCEPT ![job_id] = File(Failed(outcome))]]

(***************************************************************************)
(* FinalReportModule             src/ogum/final_report.py, ogum/final_report.py *)
(***************************************************************************)
\* the two copies of the module: src/ogum ("src") and ogum ("legacy")
ReportVersions == {"src", "legacy"}

\* the columns of a record's table
ReportColumns == {Required, Required \cup {"residual"},
                  {"Time_s", "Temperature_C"}, {"residual"}}

ReportRecords == {<<>>} \cup {<<a>> : a \in ReportColumns}
                        \cup {<<a, b>> : a, b \in ReportColumns}

NoException == [raised |-> FALSE, error |-> ""]

\* exibir_mensagem(msg), core.py lines 116-122: one parameter
exibir_mensagem(args) ==
    IF Len(args) # 1 THEN [raised |-> TRUE, error |-> "TypeError"] ELSE NoException

\* exibir_erro(msg), core.py lines 125-131: one parameter
exibir_erro(args) ==
    IF Len(args) # 1 THEN [raised |-> TRUE, error |-> "TypeError"] ELSE NoException

\* the widget's value: nothing yet, the rendered report, or the error text
EmptyHtml == [kind |-> "empty", exc |-> ""]
RenderedHtml == [kind |-> "report", exc |-> ""]
ErrorHtml(exc) == [kind |-> "error", exc |-> exc]

\* the statements of the try block up to generate_report (src lines 52-80,
\* legacy lines 40-68): the tables with the three columns, bootstrap_ea on
\* them (stats.py line 47 constructs MaterialCalibrator() first), then the
\* normality test and the rendering
ReportBody(records) ==
    LET experiments == SelectSeq(records, LAMBDA columns : Required \subseteq columns)
        calib_made == MaterialCalibrator(<<>>)
    IN  IF experiments = <<>>
        THEN [raised |-> TRUE, error |-> "ValueError"]
        ELSE IF calib_made.raised
        THEN [raised |-> TRUE, error |-> calib_made.error]
        ELSE NoException

\* lines 47-50 of src (lines 37-38 of legacy): on_busy(True, ...) when a
\* callback is configured, then the output area is cleared
ReportBegin(version, records, on_busy) ==
    [called |-> TRUE, version |-> version, records |-> records,
     on_busy |-> on_busy, at |-> "try",
     busy |-> IF version = "src" /\ on_busy THEN <<TRUE>> ELSE <<>>,
     report_html |-> EmptyHtml,
     body |-> NoException, caught |-> NoException, pending |-> NoException,
     raised |-> FALSE, error |-> ""]

\* the try block: on success the report is stored (src line 81, legacy line
\* 69) and src then calls exibir_mensagem with two arguments (line 82)
ReportTry(r) ==
    LET body == ReportBody(r.records)
        shown == IF r.version = "src" THEN exibir_mensagem(<<"msg", "log_output">>)
                 ELSE NoException
    IN  IF body.raised
        THEN [r EXCEPT !.body = body, !.caught = body, !.at = "except"]
        ELSE IF shown.raised
        THEN [r EXCEPT !.body = body, !.report_html = RenderedHtml,
                       !.caught = shown, !.at = "except"]
        ELSE [r EXCEPT !.body = body, !.report_html = RenderedHtml,
                       !.at = "finally"]

\* the except block: the error text is stored (src line 84, legacy line 71)
\* and src then calls exibir_erro with two arguments (line 85)
ReportExcept(r) ==
    LET shown == IF r.version = "src" THEN exibir_erro(<<"msg", "log_output">>)
                 ELSE NoException
    IN  [r EXCEPT !.report_html = ErrorHtml(r.caught.error),
                  !.pending = shown, !.at = "finally"]

\* on_busy(False, "") placed after the try statement instead of in finally
ReportFinallyAfterTry(r) ==
    [r EXCEPT !.busy = IF r.version = "src" /\ r.on_busy /\ ~r.pending.raised
                       THEN Append(@, FALSE) ELSE @,
              !.at = "ended",
              !.raised = r.pending.raised, !.error = r.pending.error]

\* the finally block of src lines 86-88; the pending exception, if any,
\* propagates to the caller once it has run
ReportFinally(r) ==
    [r EXCEPT !.busy = IF r.version = "src" /\ r.on_busy
                       THEN Append(@, FALSE) ELSE @,
              !.at = "ended",
              !.raised = r.pending.raised, !.error = r.pending.error]

(***************************************************************************)
(* MaterialCalibrator.simulate_synthetic  src/ogum/material_calibrator.py  *)
(***************************************************************************)
\* np.linspace(start, stop, num): num evenly spaced values, both ends included
linspace(start, stop, num) ==
    [i \in 1..num |->
        IF num = 1 THEN FromInt(start)
        ELSE FAdd(FromInt(start), FDiv(FromInt((i - 1) * (stop - start)), FromInt(num - 1)))]

\* line 130-131: dens = 1 - exp(-k t) with k = A exp(-Ea 1000 / (R T_k)); the
\* exponential of k is positive and finite for the energies of SynthEnergies,
\* so k has the sign of A.  Times 100: 0 when k t = 0, in (0, 100] when
\* k t > 0, below 0 when k t < 0
SynthDensity(A, t) ==
    IF A * t = 0 THEN "zero" ELSE IF A * t > 0 THEN "in (0,100]" ELSE "negative"

SynthColumns == <<"Time_s", "Temperature_C", "DensidadePct">>

\* simulate_synthetic(ea_kJ, A, time_array), lines 126-137
simulate_synthetic(ea_kJ, A, time_array) ==
    LET T_c == linspace(1000, 1050, Len(time_array))
    IN  [columns |-> SynthColumns,
         rows |-> [i \in 1..Len(time_array) |->
                      [Time_s |-> time_array[i],
                       Temperature_C |-> T_c[i],
                       DensidadePct |-> SynthDensity(A, time_array[i])]]]

SynthEnergies == {0, 40}
SynthFactors == {0, 1}
SynthTimes == {<<>>, <<0>>, <<3>>, <<0, 5>>, <<1, 2>>, <<0, 1, 2>>}

(***************************************************************************)
(* densify_mesh_async                     src/ogum/fem_interface.py        *)
(***************************************************************************)
\* the mesh argument: a dolfinx mesh, or an object without a topology
Meshes == {"mesh", "None"}

\* temperature_history: a list of (time_s, temp_C) pairs
Histories == {<<>>, <<<<0, 1000>>, <<10, 1100>>>>}

\* densify_mesh, lines 59-75: zip(*temperature_history) unpacked into two
\* names (line 62), then mesh.topology (line 69), then one density per cell
densify_mesh(mesh, temperature_history) ==
    IF temperature_history = <<>>
    THEN [raised |-> TRUE, error |-> "ValueError"]
    ELSE IF mesh = "None"
    THEN [raised |-> TRUE, error |-> "AttributeError"]
    ELSE [raised |-> FALSE, error |-> ""]

\* lines 111, 123-125: the dictionary, the thread started, both returned
AsyncBegin(mesh, temperature_history, callback) ==
    [called |-> TRUE, mesh |-> mesh, temperature_history |-> temperature_history,
     callback |-> callback,
     result |-> [densities |-> "None", error |-> "None"],
     at |-> "started", alive |-> TRUE, calls |-> <<>>]

\* _target, lines 114-119: the outcome of densify_mesh is stored
TargetStore(w) ==
    LET r == densify_mesh(w.mesh, w.temperature_history)
    IN  [w EXCEPT !.result = IF r.raised
                             THEN [@ EXCEPT !.error = r.error]
                             ELSE [@ EXCEPT !.densities = "array"],
                  !.at = "stored"]

\* the callback invoked at the end of the try block instead of after the
\* try statement
TargetCallbackInTry(w) ==
    [w EXCEPT !.calls = IF w.callback /\ w.result.error = "None"
                        THEN Append(@, w.result) ELSE @,
              !.at = "notified"]

\* _target, lines 120-121: the callback, when given, receives the dictionary
TargetCallback(w) ==
    [w EXCEPT !.calls = IF w.callback THEN Append(@, w.result) ELSE @,
              !.at = "notified"]

\* _target returns and the thread ends
TargetExit(w) == [w EXCEPT !.alive = FALSE, !.at = "finished"]

(***************************************************************************)
(* DataHistory                                    ogum/core.py             *)
(***************************************************************************)
\* Objects live in two heaps: frames[f] is the content of DataFrame object f
\* (object 1 is the caller's DataFrame), lists[l] is the content of list
\* object l (object 1 is self.history).  A record refers to its DataFrame by
\* the object's index.
MaxPush == 2

FrameValues == {"v0", "v1"}

\* DataHistory(), lines 54-56, next to a DataFrame of the caller
HistoryInit(v) ==
    [called |-> TRUE, op |-> "init", frames |-> <<v>>, lists |-> <<<<>>>>,
     got |-> 0, ret |-> "None"]

\* push storing the caller's DataFrame itself instead of a copy
PushShared(h, module_name) ==
    [h EXCEPT !.op = "push",
              !.lists[1] = Append(@, [module |-> module_name, data |-> 1]),
              !.ret = "None"]

\* push(data, module_name), lines 58-71: data.copy(deep=True) is a new object
push(h, module_name) ==
    [h EXCEPT !.op = "push",
              !.frames = Append(@, h.frames[1]),
              !.lists[1] = Append(@, [module |-> module_name,
                                      data |-> Len(h.frames) + 1]),
              !.ret = "None"]

\* pop(), lines 73-80
pop(h) ==
    IF h.lists[1] # <<>>
    THEN [h EXCEPT !.op = "pop",
                   !.lists[1] = SubSeq(@, 1, Len(@) - 1),
                   !.ret = h.lists[1][Len(h.lists[1])]]
    ELSE [h EXCEPT !.op = "pop", !.ret = "None"]

\* peek(), lines 82-89
peek(h) ==
    [h EXCEPT !.op = "peek",
              !.ret = IF h.lists[1] # <<>> THEN h.lists[1][Len(h.lists[1])]
                      ELSE "None"]

\* get_all(), lines 91-97: list(self.history) is a new list object, which
\* takes the place of the list the caller got before
get_all(h) ==
    [h EXCEPT !.op = "get_all", !.lists = <<h.lists[1], h.lists[1]>>,
              !.got = 2, !.ret = "None"]

\* the caller writes into its DataFrame
FrameWrite(h, v) == [h EXCEPT !.op = "write", !.frames[1] = v, !.ret = "None"]

\* the caller removes the last element of the list it got from get_all
ListRemove(h) ==
    [h EXCEPT !.op = "remove", !.lists[h.got] = SubSeq(@, 1, Len(@) - 1),
              !.ret = "None"]

(***************************************************************************)
(* diagnostics.check_versions                     diagnostics.py           *)
(***************************************************************************)
\* a version as the package reports it: the characters of __version__, with
\* the release numbers they stand for
Version(text, release) == [text |-> text, release |-> release]

REQUIRED_PY == <<3, 11>>

Packages == <<"numpy", "pandas", "scipy", "pytest">>

REQUIRED_PKGS ==
    [pkg \in {"numpy", "pandas", "scipy", "pytest"} |->
        CASE pkg = "numpy" -> Version(<<"1", ".", "2", "6">>, <<1, 26>>)
          [] pkg = "pandas" -> Version(<<"2", ".", "2">>, <<2, 2>>)
          [] pkg = "scipy" -> Version(<<"1", ".", "1", "3">>, <<1, 13>>)
          [] pkg = "pytest" -> Version(<<"8", ".", "4">>, <<8, 4>>)]

NotInstalled == Version(<<>>, <<>>)

\* what importlib.import_module(pkg).__version__ may give in an environment:
\* the wanted release, an older one, or no module at all
Installed ==
    [pkg \in {"numpy", "pandas", "scipy", "pytest"} |->
        {NotInstalled, REQUIRED_PKGS[pkg]} \cup
        CASE pkg = "numpy" -> {Version(<<"1", ".", "9">>, <<1, 9>>)}
          [] pkg = "pandas" -> {Version(<<"1", ".", "5">>, <<1, 5>>)}
          [] pkg = "scipy" -> {Version(<<"1", ".", "1", "1">>, <<1, 11>>)}
          [] pkg = "pytest" -> {Version(<<"7", ".", "4">>, <<7, 4>>)}]

Environments == [py : {<<3, 10>>, <<3, 11>>, <<3, 12>>},
                 numpy : Installed["numpy"], pandas : Installed["pandas"],
                 scipy : Installed["scipy"], pytest : Installed["pytest"]]

\* the code point of a character of a version string
Ord(c) == IF c = "." THEN 46
          ELSE 48 + CHOOSE n \in 0..9 : <<"0", "1", "2", "3", "4", "5", "6", "7", "8", "9">>[n + 1] = c

\* a >= b on sequences of numbers, element by element, a proper prefix being
\* smaller: the order of tuples and, on code points, of strings
RECURSIVE SeqGe(_, _)
SeqGe(a, b) ==
    IF b = <<>> THEN TRUE
    ELSE IF a = <<>> THEN FALSE
    ELSE IF Head(a) # Head(b) THEN Head(a) > Head(b)
    ELSE SeqGe(Tail(a), Tail(b))

\* have >= wanted of line 55, on str
StrGe(have, wanted) ==
    SeqGe([i \in 1..Len(have) |-> Ord(have[i])],
          [i \in 1..Len(wanted) |-> Ord(wanted[i])])

\* one pass of the loop of lines 51-60: the status printed and the flag
PackageCheck(env, pkg, ok) ==
    LET have == CASE pkg = "numpy" -> env.numpy [] pkg = "pandas" -> env.pandas
                  [] pkg = "scipy" -> env.scipy [] pkg = "pytest" -> env.pytest
    IN  IF have = NotInstalled
        THEN [status |-> "NOT INSTALLED", ok |-> FALSE]
        ELSE [status |-> IF StrGe(have.text, REQUIRED_PKGS[pkg].text)
                         THEN "OK" ELSE "FAIL",
              ok |-> ok]

\* for pkg, wanted in REQUIRED_PKGS.items(), lines 51-60
RECURSIVE PackageLoop(_, _, _, _)
PackageLoop(env, i, ok, printed) ==
    IF i > Len(Packages) THEN [ok |-> ok, printed |-> printed]
    ELSE LET r == PackageCheck(env, Packages[i], ok)
         IN  PackageLoop(env, i + 1, r.ok, Append(printed, r.status))

\* check_versions(), lines 37-61
check_versions(env) ==
    LET py_status == IF SeqGe(env.py, REQUIRED_PY) THEN "OK" ELSE "FAIL"
    IN  PackageLoop(env, 1, py_status = "OK", <<py_status>>)

(***************************************************************************)
(* State: the call in progress or last completed, with its inputs and      *)
(* result.  pc is "idle" between calls.                                    *)
(***************************************************************************)
NoCall == [called |-> FALSE]

Init ==
    /\ pc = "idle"
    /\ calib = NoCall
    /\ master = NoCall
    /\ boot = NoCall
    /\ sovs = NoCall
    /\ theta = NoCall
    /\ api = NoCall
    /\ fem = NoCall
    /\ hist = NoCall
    /\ report = NoCall
    /\ worker = NoCall
    /\ synth = NoCall
    /\ diag = NoCall

\* MaterialCalibrator.fit(experiments)
Fit(kind, experiments) ==
    /\ pc' = "fit_done"
    /\ calib' = [called |-> TRUE, kind |-> kind,
                 exps |-> Normalise(kind, experiments),
                 tables |-> FitTables(Normalise(kind, experiments)),
                 out |-> fit(kind, experiments)]
    /\ UNCHANGED <<master, boot, sovs, theta, api,
                 fem, hist, report, worker, synth, diag>>

FitFrame == pc = "idle" /\ \E df \in Frames : Fit("frame", df)

FitList == pc = "idle" /\ \E exps \in ExperimentLists : Fit("list", exps)

\* build_master_curve(df, method)
BuildMasterCurve(df, method, columns) ==
    /\ pc' = "master_done"
    /\ master' = [called |-> TRUE, df |-> df, method |-> method, columns |-> columns,
                  out |-> build_master_curve(df, method, columns)]
    /\ UNCHANGED <<calib, boot, sovs, theta, api,
                 fem, hist, report, worker, synth, diag>>

BuildCurve ==
    pc = "idle" /\ \E df \in Frames : BuildMasterCurve(df, "arrhenius", Required)

BuildRejected ==
    /\ pc = "idle"
    /\ \E df \in BootFrames, method \in Methods, columns \in ColumnSets :
          /\ method # "arrhenius" \/ columns # Required
          /\ BuildMasterCurve(df, method, columns)

\* bootstrap_ea(experiments, n_bootstrap), lines 37-42; prev is the previous
\* call's draws and result when this call repeats it on the same arguments
BootstrapBegin(experiments, n, prev) ==
    /\ pc' = IF experiments = <<>> THEN "boot_done" ELSE "boot_loop"
    /\ boot' = [called |-> TRUE, experiments |-> experiments, n |-> n, i |-> 0,
                tables |-> [e \in 1..Len(experiments) |-> Table(experiments[e])],
                draws |-> <<>>, eas |-> <<>>, prev |-> prev,
                out |-> IF experiments = <<>>
                        THEN [raised |-> TRUE, error |-> "ValueError", ci |-> NoInterval]
                        ELSE [raised |-> FALSE, error |-> "", ci |-> NoInterval]]
    /\ UNCHANGED <<calib, master, sovs, theta, api,
                 fem, hist, report, worker, synth, diag>>

BootstrapCall ==
    /\ pc = "idle"
    /\ \E experiments \in BootLists, n \in 0..MaxBoot :
          BootstrapBegin(experiments, n, <<>>)

\* a second call of bootstrap_ea with the arguments of the call that just ended
BootstrapRepeat ==
    /\ pc = "boot_done"
    /\ boot.prev = <<>>
    /\ BootstrapBegin(boot.experiments, boot.n,
                      <<[draws |-> boot.draws, out |-> boot.out]>>)

\* one iteration of the loop of lines 43-49; rng.integers(0, n, n) draws idx
BootstrapResample ==
    /\ pc = "boot_loop"
    /\ boot.i < boot.n
    /\ \E idx \in [1..Len(boot.experiments) -> 0..(Len(boot.experiments) - 1)] :
          LET r == Resample(boot.experiments, idx)
          IN  /\ boot' = [boot EXCEPT !.i = @ + 1,
                                      !.draws = Append(@, idx),
                                      !.tables = ResampleTables(@, idx),
                                      !.eas = IF r.raised THEN @ ELSE Append(@, r.Ea),
                                      !.out = IF r.raised
                                              THEN [raised |-> TRUE, error |-> r.error,
                                                    ci |-> NoInterval]
                                              ELSE @]
              /\ pc' = IF r.raised THEN "boot_done" ELSE "boot_loop"
    /\ UNCHANGED <<calib, master, sovs, theta, api,
                 fem, hist, report, worker, synth, diag>>

\* lines 51-52, after the loop
BootstrapPercentile ==
    /\ pc = "boot_loop"
    /\ boot.i = boot.n
    /\ \E onEmpty \in EmptyPercentileOutcomes :
          LET r == Percentile(boot.eas, onEmpty)
          IN  boot' = [boot EXCEPT !.out = r]
    /\ pc' = "boot_done"
    /\ UNCHANGED <<calib, master, sovs, theta, api,
                 fem, hist, report, worker, synth, diag>>

\* SOVSSolver(**kw)
SovsConstruct ==
    /\ pc = "idle"
    /\ \E kw \in SovsKeywords :
          LET r == SovsInit(kw)
          IN  /\ sovs' = [called |-> TRUE, stage |-> "new", kw |-> kw, self |-> r.self,
                          t |-> Array(<<0>>, <<>>), T |-> Array(<<0>>, <<>>),
                          out |-> [raised |-> r.raised, error |-> r.error, status |-> 0,
                                   rho |-> NoDensity]]
              /\ pc' = IF r.raised THEN "sovs_done" ELSE "sovs_ready"
    /\ UNCHANGED <<calib, master, boot, theta, api,
                 fem, hist, report, worker, synth, diag>>

\* solver.solve(t, T) on the solver just constructed
SovsSolve ==
    /\ pc = "sovs_ready"
    /\ \E a \in SolveArguments :
          \E outcome \in IF a.t.v = <<>> \/ a.T.v = <<>> THEN {[status |-> 0, reached |-> 0]}
                         ELSE IvpOutcomes(sovs.self, a.t.v, a.T.v) :
             sovs' = [sovs EXCEPT !.stage = "solved", !.t = a.t, !.T = a.T,
                                  !.out = solve(sovs.self, a.t, a.T, outcome)]
    /\ pc' = "sovs_done"
    /\ UNCHANGED <<calib, master, boot, theta, api,
                 fem, hist, report, worker, synth, diag>>

\* calculate_log_theta(df, ...)
CalculateLogTheta ==
    /\ pc = "idle"
    /\ \E c \in ThetaCalls :
          theta' = [called |-> TRUE, df |-> c.df, columns |-> c.columns, args |-> c.args,
                    table |-> ThetaTable(c.df, c.columns, c.args),
                    out |-> calculate_log_theta(c.df, c.columns, c.args)]
    /\ pc' = "theta_done"
    /\ UNCHANGED <<calib, master, boot, sovs, api,
                 fem, hist, report, worker, synth, diag>>

\* POST /calc-master answered by one of the two handlers
CalcMaster ==
    /\ pc = "idle"
    /\ \E variant \in ApiVariants, input \in MasterInputs :
          LET result == calc_master(variant, input)
          IN  api' = [called |-> TRUE, variant |-> variant, input |-> input,
                      df_out |-> result.df_out, response |-> Respond(result)]
    /\ pc' = "api_done"
    /\ UNCHANGED <<calib, master, boot, sovs, theta,
                 fem, hist, report, worker, synth, diag>>

\* POST /master-curve
PostMasterCurve ==
    /\ pc = "idle"
    /\ \E request \in RouteFrames :
          \E result \in {master_curve(request)} :
              api' = [called |-> TRUE, endpoint |-> "/master-curve", request |-> request,
                      result |-> result, response |-> Answer(result)]
    /\ pc' = "route_done"
    /\ UNCHANGED <<calib, master, boot, sovs, theta, fem, hist, report, worker, synth, diag>>

\* POST /calibrate
PostCalibrate ==
    /\ pc = "idle"
    /\ \E request \in RouteFrames :
          \E result \in {calibrate(request)} :
              api' = [called |-> TRUE, endpoint |-> "/calibrate", request |-> request,
                      result |-> result, response |-> Answer(result)]
    /\ pc' = "route_done"
    /\ UNCHANGED <<calib, master, boot, sovs, theta, fem, hist, report, worker, synth, diag>>

\* POST /processing/filter
PostFilter ==
    /\ pc = "idle"
    /\ \E request \in FilterRequests :
          \E result \in {process_filter(request)} :
              api' = [called |-> TRUE, endpoint |-> "/processing/filter", request |-> request,
                      result |-> result, response |-> Answer(result)]
    /\ pc' = "route_done"
    /\ UNCHANGED <<calib, master, boot, sovs, theta, fem, hist, report, worker, synth, diag>>

\* POST /processing/activation-energy
PostActivationEnergy ==
    /\ pc = "idle"
    /\ \E request \in EnergyRequests :
          \E result \in {compute_activation_energy(request)} :
              api' = [called |-> TRUE, endpoint |-> "/processing/activation-energy", request |-> request,
                      result |-> result, response |-> Answer(result)]
    /\ pc' = "route_done"
    /\ UNCHANGED <<calib, master, boot, sovs, theta, fem, hist, report, worker, synth, diag>>

\* the service starts; the status file of job "abc" may be in place
FemOpen ==
    /\ pc = "idle"
    /\ \E abc \in {NoFile, File(Completed("abc"))} :
          fem' = [called |-> TRUE, op |-> "open", job |-> "",
                  files |-> [j \in Jobs |-> IF j = "abc" THEN abc ELSE NoFile],
                  tasks |-> [j \in Jobs |-> NoTask],
                  accepted |-> {},
                  response |-> [status |-> ""]]
    /\ pc' = "fem"
    /\ UNCHANGED <<calib, master, boot, sovs, theta, api, hist, report, worker, synth, diag>>

\* POST /fem/simulation, fem_router.py lines 22-39: a fresh job id, the task
\* queued with five arguments
StartFemSimulation ==
    /\ pc = "fem"
    /\ \E job_id \in UuidJobs :
          /\ fem.tasks[job_id].state = "none"
          /\ fem' = [fem EXCEPT !.op = "start", !.job = job_id,
                                !.tasks[job_id] = [state |-> "queued", nargs |-> 5, error |-> ""],
                                !.accepted = @ \cup {job_id},
                                !.response = [status |-> "accepted"]]
    /\ pc' = pc
    /\ UNCHANGED <<calib, master, boot, sovs, theta, api, hist, report, worker, synth, diag>>

\* solver.main(), solver.py lines 154-165: the call with all seven arguments
SolverMain ==
    /\ pc = "fem"
    /\ fem.tasks["example"].state = "none"
    /\ fem' = [fem EXCEPT !.op = "main", !.job = "example",
                          !.tasks["example"] = [state |-> "queued", nargs |-> 7, error |-> ""]]
    /\ pc' = pc
    /\ UNCHANGED <<calib, master, boot, sovs, theta, api, hist, report, worker, synth, diag>>

\* the queued call of run_fem_simulation begins
FemTaskBegin ==
    /\ pc = "fem"
    /\ \E job_id \in Jobs :
          /\ fem.tasks[job_id].state = "queued"
          /\ LET r == RunBegin(fem.files, job_id, fem.tasks[job_id].nargs)
             IN  fem' = [fem EXCEPT !.op = "begin", !.job = job_id,
                                    !.tasks[job_id] = r.task, !.files = r.files]
    /\ pc' = pc
    /\ UNCHANGED <<calib, master, boot, sovs, theta, api, hist, report, worker, synth, diag>>

\* the running call of run_fem_simulation ends
FemTaskEnd ==
    /\ pc = "fem"
    /\ \E job_id \in Jobs, outcome \in SolveOutcomes :
          /\ fem.tasks[job_id].state = "running"
          /\ LET r == RunEnd(fem.files, job_id, fem.tasks[job_id], outcome)
             IN  fem' = [fem EXCEPT !.op = "end", !.job = job_id,
                                    !.tasks[job_id] = r.task, !.files = r.files]
    /\ pc' = pc
    /\ UNCHANGED <<calib, master, boot, sovs, theta, api, hist, report, worker, synth, diag>>

\* GET /fem/simulation/status/{job_id}
FemStatus ==
    /\ pc = "fem"
    /\ \E job_id \in Jobs :
          LET r == fem_simulation_status(fem.files, job_id)
          IN  fem' = [fem EXCEPT !.op = "status", !.job = job_id,
                                 !.files = r.files, !.response = r.response]
    /\ pc' = pc
    /\ UNCHANGED <<calib, master, boot, sovs, theta, api, hist, report, worker, synth, diag>>

\* FinalReportModule(records, on_busy=...)._on_generate_report()
GenerateReport ==
    /\ pc = "idle"
    /\ \E version \in ReportVersions, records \in ReportRecords, on_busy \in BOOLEAN :
          /\ version = "legacy" => ~on_busy
          /\ report' = ReportBegin(version, records, on_busy)
    /\ pc' = "report"
    /\ UNCHANGED <<calib, master, boot, sovs, theta, api, fem, hist, worker, synth, diag>>

\* the handler runs its try block
GenerateReportTry ==
    /\ pc = "report"
    /\ report.at = "try"
    /\ report' = ReportTry(report)
    /\ pc' = pc
    /\ UNCHANGED <<calib, master, boot, sovs, theta, api, fem, hist, worker, synth, diag>>

\* the handler runs its except block
GenerateReportExcept ==
    /\ pc = "report"
    /\ report.at = "except"
    /\ report' = ReportExcept(report)
    /\ pc' = pc
    /\ UNCHANGED <<calib, master, boot, sovs, theta, api, fem, hist, worker, synth, diag>>

\* the handler leaves the try statement and ends
GenerateReportFinally ==
    /\ pc = "report"
    /\ report.at = "finally"
    /\ report' = ReportFinally(report)
    /\ pc' = "report_done"
    /\ UNCHANGED <<calib, master, boot, sovs, theta, api, fem, hist, worker, synth, diag>>

\* MaterialCalibrator.simulate_synthetic(ea_kJ, A, time_array)
SimulateSynthetic ==
    /\ pc = "idle"
    /\ \E ea_kJ \in SynthEnergies, A \in SynthFactors, time_array \in SynthTimes :
          synth' = [called |-> TRUE, ea_kJ |-> ea_kJ, A |-> A, time_array |-> time_array,
                    out |-> simulate_synthetic(ea_kJ, A, time_array)]
    /\ pc' = "synth_done"
    /\ UNCHANGED <<calib, master, boot, sovs, theta, api, fem, hist, report, worker, diag>>

\* densify_mesh_async(mesh, temperature_history, Ea, A, callback=...)
DensifyMeshAsync ==
    /\ pc = "idle"
    /\ \E mesh \in Meshes, temperature_history \in Histories, callback \in BOOLEAN :
          worker' = AsyncBegin(mesh, temperature_history, callback)
    /\ pc' = "worker"
    /\ UNCHANGED <<calib, master, boot, sovs, theta, api, fem, hist, report, synth, diag>>

\* the worker thread runs densify_mesh and stores its outcome
WorkerStore ==
    /\ pc = "worker"
    /\ worker.at = "started"
    /\ worker' = TargetStore(worker)
    /\ pc' = pc
    /\ UNCHANGED <<calib, master, boot, sovs, theta, api, fem, hist, report, synth, diag>>

\* the worker thread reaches the callback test
WorkerCallback ==
    /\ pc = "worker"
    /\ worker.at = "stored"
    /\ worker' = TargetCallback(worker)
    /\ pc' = pc
    /\ UNCHANGED <<calib, master, boot, sovs, theta, api, fem, hist, report, synth, diag>>

\* the worker thread ends
WorkerExit ==
    /\ pc = "worker"
    /\ worker.at = "notified"
    /\ worker' = TargetExit(worker)
    /\ pc' = "worker_done"
    /\ UNCHANGED <<calib, master, boot, sovs, theta, api, fem, hist, report, synth, diag>>

\* a DataHistory is created
HistoryOpen ==
    /\ pc = "idle"
    /\ \E v \in FrameValues : hist' = HistoryInit(v)
    /\ pc' = "hist"
    /\ UNCHANGED <<calib, master, boot, sovs, theta, api, fem, report, worker, synth, diag>>

HistoryPush ==
    /\ pc = "hist"
    /\ Len(hist.frames) <= MaxPush
    /\ \E module_name \in {"refine", "filter"} : hist' = push(hist, module_name)
    /\ pc' = pc
    /\ UNCHANGED <<calib, master, boot, sovs, theta, api, fem, report, worker, synth, diag>>

HistoryPop ==
    /\ pc = "hist"
    /\ hist' = pop(hist)
    /\ pc' = pc
    /\ UNCHANGED <<calib, master, boot, sovs, theta, api, fem, report, worker, synth, diag>>

HistoryPeek ==
    /\ pc = "hist"
    /\ hist' = peek(hist)
    /\ pc' = pc
    /\ UNCHANGED <<calib, master, boot, sovs, theta, api, fem, report, worker, synth, diag>>

HistoryGetAll ==
    /\ pc = "hist"
    /\ hist' = get_all(hist)
    /\ pc' = pc
    /\ UNCHANGED <<calib, master, boot, sovs, theta, api, fem, report, worker, synth, diag>>

\* the caller changes the DataFrame it pushed or will push
HistoryFrameWrite ==
    /\ pc = "hist"
    /\ \E v \in FrameValues \ {hist.frames[1]} : hist' = FrameWrite(hist, v)
    /\ pc' = pc
    /\ UNCHANGED <<calib, master, boot, sovs, theta, api, fem, report, worker, synth, diag>>

\* the caller changes the list it got from get_all
HistoryListRemove ==
    /\ pc = "hist"
    /\ hist.got # 0
    /\ hist.lists[hist.got] # <<>>
    /\ hist' = ListRemove(hist)
    /\ pc' = pc
    /\ UNCHANGED <<calib, master, boot, sovs, theta, api, fem, report, worker, synth, diag>>

\* diagnostics.check_versions() in some environment
CheckVersions ==
    /\ pc = "idle"
    /\ \E env \in Environments :
          diag' = [called |-> TRUE, env |-> env, out |-> check_versions(env)]
    /\ pc' = "diag_done"
    /\ UNCHANGED <<calib, master, boot, sovs, theta, api, fem, hist, report, worker, synth>>

\* the caller takes the result (or the exception); the next call starts afresh
Return ==
    /\ pc \in {"fit_done", "master_done", "boot_done", "sovs_done", "theta_done", "api_done", "diag_done", "hist", "worker_done", "synth_done", "report_done", "fem", "route_done"}
    /\ pc' = "idle"
    /\ calib' = NoCall
    /\ master' = NoCall
    /\ boot' = NoCall
    /\ sovs' = NoCall
    /\ theta' = NoCall
    /\ api' = NoCall
    /\ fem' = NoCall
    /\ hist' = NoCall
    /\ report' = NoCall
    /\ worker' = NoCall
    /\ synth' = NoCall
    /\ diag' = NoCall

Next ==
    \/ FitFrame
    \/ FitList
    \/ BuildCurve
    \/ BuildRejected
    \/ BootstrapCall
    \/ BootstrapRepeat
    \/ BootstrapResample
    \/ BootstrapPercentile
    \/ SovsConstruct
    \/ SovsSolve
    \/ CalculateLogTheta
    \/ CalcMaster
    \/ PostMasterCurve
    \/ PostCalibrate
    \/ PostFilter
    \/ PostActivationEnergy
    \/ FemOpen
    \/ StartFemSimulation
    \/ SolverMain
    \/ FemTaskBegin
    \/ FemTaskEnd
    \/ FemStatus
    \/ GenerateReport
    \/ GenerateReportTry
    \/ GenerateReportExcept
    \/ GenerateReportFinally
    \/ SimulateSynthetic
    \/ DensifyMeshAsync
    \/ WorkerStore
    \/ WorkerCallback
    \/ WorkerExit
    \/ HistoryOpen
    \/ HistoryPush
    \/ HistoryPop
    \/ HistoryPeek
    \/ HistoryGetAll
    \/ HistoryFrameWrite
    \/ HistoryListRemove
    \/ CheckVersions
    \/ Return

Spec == Init /\ [][Next]_vars

(***************************************************************************)
(* Properties.  The predicates below read the inputs of the call directly  *)
(* (integer arithmetic on the samples) and compare with what the call      *)
(* produced.                                                               *)
(***************************************************************************)
FitDone == pc = "fit_done"
MasterDone == pc = "master_done"
MasterOk == pc = "master_done" /\ ~master.out.raised
BootDone == pc = "boot_done"

PoolIndices(pool) == 1..Len(pool)

\* the sample a pooled point of fit was computed for
FitSource(p) == calib.exps[p.e][p.i]

\* build_master_curve reads densities as percent when any exceeds 1
InPercent(df) == \E j \in 1..Len(df) : df[j].d > 1

\* density fraction strictly inside (0, 1)
InsideUnit(df, i) ==
    IF InPercent(df) THEN 0 < df[i].d /\ df[i].d < 100
    ELSE 0 < df[i].d /\ df[i].d < 1

\* density exactly 100 %
FullDensity(df, i) == IF InPercent(df) THEN df[i].d = 100 ELSE df[i].d = 1

PositiveFinite(k) == k.cls = "fin" /\ k.n > 0

MasterRateValid(k) == k.cls = "fin" /\ k.sgn = 1

C2_NothingPooledFromFullDensityOn ==
    /\ FitDone =>
         \A e \in 1..Len(calib.exps) : \A j \in 1..(Len(calib.exps[e]) - 1) :
            calib.exps[e][j].d = 100 =>
               ~\E q \in PoolIndices(calib.out.pool) :
                   calib.out.pool[q].e = e /\ calib.out.pool[q].i >= j
    /\ MasterDone =>
         \A j \in 1..(Len(master.df) - 1) :
            FullDensity(master.df, j) =>
               ~\E q \in PoolIndices(master.out.pool) : master.out.pool[q].i >= j

\* C2 (amended): a sample whose density is exactly 100 % never contributes a
\* pooled point itself; samples after it are judged by their own values.
C2_FullDensitySampleNotPooled ==
    /\ FitDone =>
         \A q \in PoolIndices(calib.out.pool) : FitSource(calib.out.pool[q]).d # 100
    /\ MasterDone =>
         \A q \in PoolIndices(master.out.pool) :
            ~FullDensity(master.df, master.out.pool[q].i)

\* a sample after a 100 % sample has been pooled
C2_Witness ==
    \/ /\ FitDone
       /\ \E q \in PoolIndices(calib.out.pool) :
             \E j \in 1..(calib.out.pool[q].i - 1) :
                calib.exps[calib.out.pool[q].e][j].d = 100
    \/ /\ MasterOk
       /\ \E q \in PoolIndices(master.out.pool) :
             \E j \in 1..(master.out.pool[q].i - 1) : FullDensity(master.df, j)

\* the step from sample i to sample i+1 of df gives a positive finite rate
ValidStep(df, i) ==
    /\ i < Len(df)
    /\ df[i + 1].t > df[i].t
    /\ df[i].d # 100
    /\ (df[i + 1].d - df[i].d) * (100 - df[i].d) > 0

SomeValidStep(exps) ==
    \E e \in 1..Len(exps) : \E i \in 1..Len(exps[e]) : ValidStep(exps[e], i)

\* C3: fit raises ValueError exactly when no experiment yields a valid point
\* (empty list, only short experiments, every rate masked), never returns
\* parameters of an empty pool, and pools every valid point of every
\* experiment, short experiments being skipped.
C3_FitFailsExactlyOnEmptyPool ==
    FitDone =>
       /\ calib.out.raised <=> ~SomeValidStep(calib.exps)
       /\ calib.out.raised =>
             /\ calib.out.error = "ValueError"
             /\ calib.out.msg = "No valid data for fitting"
             /\ calib.out.pool = <<>>
       /\ ~calib.out.raised => calib.out.pool # <<>>
       /\ \A e \in 1..Len(calib.exps) : \A i \in 1..Len(calib.exps[e]) :
             ValidStep(calib.exps[e], i) =>
                \E q \in PoolIndices(calib.out.pool) :
                   calib.out.pool[q].e = e /\ calib.out.pool[q].i = i

\* a list with a short experiment before one that is pooled
C3_Witness ==
    /\ FitDone
    /\ ~calib.out.raised
    /\ \E e \in 1..Len(calib.exps) :
          /\ Len(calib.exps[e]) < 2
          /\ \E q \in PoolIndices(calib.out.pool) : calib.out.pool[q].e > e

\* C4 (as stated): for a non-empty list bootstrap_ea runs n_bootstrap
\* resamples (n_bootstrap >= 1) with indices in 0..len-1 and returns the
\* percentile pair (2.5, 97.5) of the recorded Ea values, low <= high.
C4_BootstrapReturnsInterval ==
    (BootDone /\ boot.experiments # <<>> /\ boot.n >= 1) =>
       /\ ~boot.out.raised
       /\ boot.i = boot.n
       /\ Len(boot.draws) = boot.n
       /\ \A r \in 1..Len(boot.draws) : \A j \in 1..Len(boot.draws[r]) :
             boot.draws[r][j] \in 0..(Len(boot.experiments) - 1)
       /\ boot.out.ci.low.f = "percentile" /\ boot.out.ci.low.q = 25
       /\ boot.out.ci.high.f = "percentile" /\ boot.out.ci.high.q = 975
       /\ boot.out.ci.low.of = boot.eas /\ boot.out.ci.high.of = boot.eas

\* C5 (as stated): a failing resample is skipped and the loop goes on; no
\* resample aborts the procedure, so an error can only come after the loop.
C5_FailedResampleSkipped ==
    (BootDone /\ boot.experiments # <<>> /\ boot.out.raised) => boot.i = boot.n

\* C6 (as stated): ValueError when the list is empty or none of the
\* n_bootstrap >= 1 resamples gave a successful fit.
C6_ValueErrorWithoutSuccessfulFit ==
    (BootDone /\ (boot.experiments = <<>> \/ (boot.n >= 1 /\ boot.eas = <<>>))) =>
       boot.out.raised /\ boot.out.error = "ValueError"

\* C7 (as stated): a repeated run on identical experiments (n_bootstrap >= 1)
\* draws the same resample indices and returns the identical result.
C7_RepeatedRunIdentical ==
    (BootDone /\ boot.prev # <<>> /\ boot.n >= 1) =>
       /\ boot.draws = boot.prev[1].draws
       /\ boot.out = boot.prev[1].out

\* C8: one output row per input sample, in order, master_density equal to
\* the input density, also for samples the validity mask excludes.
C8_RowsKeepDensity ==
    MasterOk =>
       /\ Len(master.out.rows) = Len(master.df)
       /\ \A i \in 1..Len(master.df) :
             master.out.rows[i].master_density = [cls |-> "fin", n |-> master.df[i].d, d |-> 1]

\* a curve was built for a frame with a sample outside the validity mask
C8_Witness ==
    /\ MasterOk
    /\ \E i \in 1..Len(master.df) : master.df[i].t = 0 \/ ~InsideUnit(master.df, i)

Isothermal(df) == \A i \in 1..Len(df) : df[i].T = df[1].T

\* C9: for an isothermal experiment every shift factor is 1 and master_time
\* equals the input time.
C9_IsothermalIdentity ==
    (MasterOk /\ Isothermal(master.df)) =>
       \A i \in 1..Len(master.df) :
          /\ master.out.a_T[i].exact
          /\ master.out.a_T[i].v = [cls |-> "fin", n |-> 1, d |-> 1]
          /\ master.out.rows[i].master_time.exact
          /\ master.out.rows[i].master_time.v = [cls |-> "fin", n |-> master.df[i].t, d |-> 1]

\* an isothermal curve with samples at different positive times
C9_Witness ==
    /\ MasterOk
    /\ Isothermal(master.df)
    /\ \E i, j \in 1..Len(master.df) :
          0 < master.df[i].t /\ master.df[i].t < master.df[j].t

ValidCount(df) ==
    Cardinality({i \in 1..Len(df) : df[i].t > 0 /\ InsideUnit(df, i)})

\* C10: ValueError and no curve whenever fewer than 2 samples pass the
\* validity mask; with 2 or more the insufficient-data error is not raised
\* (and the curve is built when method and columns are accepted).
C10_ValueErrorBelowTwoValid ==
    MasterDone =>
       /\ ValidCount(master.df) < 2 =>
             /\ master.out.raised
             /\ master.out.error = "ValueError"
             /\ master.out.rows = <<>>
       /\ ValidCount(master.df) >= 2 =>
             /\ master.out.msg # "Insufficient data"
             /\ (master.method = "arrhenius" /\ Required \subseteq master.columns)
                   => ~master.out.raised

\* rejected with exactly one valid sample among several
C10_Witness ==
    /\ MasterDone
    /\ master.out.raised
    /\ master.out.msg = "Insufficient data"
    /\ ValidCount(master.df) = 1
    /\ Len(master.df) >= 2

(***************************************************************************)
(* Order of the master times.  With two valid samples at different         *)
(* temperatures the regression line passes through both points, so         *)
(*   ln a_T = -slope * delta = ShiftExponent * ln(k_1 / k_2),              *)
(* where ShiftExponent = delta / (X_2 - X_1) is rational.                  *)
(***************************************************************************)
\* a / b on finite values, reducing across before multiplying
Ratio(a, b) ==
    LET g1 == GCD(Abs(a.n), Abs(b.n))
        g2 == GCD(a.d, b.d)
    IN  Fin((a.n \div g1) * (b.d \div g2), (a.d \div g2) * (b.n \div g1))

RECURSIVE Pow(_, _)
Pow(b, e) == IF e = 0 THEN 1 ELSE b * Pow(b, e - 1)

StrictTime(df) ==
    /\ \A i \in 1..Len(df) : df[i].t >= 0
    /\ \A i \in 1..(Len(df) - 1) : df[i].t < df[i + 1].t

\* the curve was built from exactly two valid samples at different temperatures
TwoPointRamp ==
    /\ MasterOk
    /\ Len(master.out.pool) = 2
    /\ master.out.Ea.X[1] # master.out.Ea.X[2]

\* delta / (X_2 - X_1) of output row i
ShiftExponent(i) ==
    Ratio(master.out.a_T[i].delta, FSub(master.out.Ea.X[2], master.out.Ea.X[1]))

\* -ln(1 - x_1) * t_2^2 > -ln(1 - x_2) * t_1^2 for the two regressed samples,
\* as (1 - x_1)^(t_2^2) < (1 - x_2)^(t_1^2) on the recorded fractions
RateOrderKept ==
    LET k1 == master.out.Ea.Y[1].ln
        k2 == master.out.Ea.Y[2].ln
        u1 == FSub(One, k1.x)
        u2 == FSub(One, k2.x)
        e1 == k2.t.n * k2.t.n
        e2 == k1.t.n * k1.t.n
    IN  Pow(u1.n, e1) * Pow(u2.d, e2) < Pow(u2.n, e2) * Pow(u1.d, e1)

\* master_time of row i is below master_time of row j (i, j rows with t >= 0)
MasterTimeLess(i, j) ==
    LET mi == master.out.rows[i].master_time
        mj == master.out.rows[j].master_time
    IN  IF mi.exact /\ mj.exact THEN FLess(mi.v, mj.v)
        ELSE IF IsZero(mi.t) THEN GtZero(mj.t)
        ELSE /\ TwoPointRamp
             /\ master.out.pool[1].i = i /\ master.out.pool[2].i = j
             /\ FSub(ShiftExponent(i), ShiftExponent(j)) = FromInt(-1)
             /\ RateOrderKept

\* the same order read from the input samples i and j
InputOrderKept(df, i, j) ==
    LET u1 == Fin(100 - df[i].d, 100)
        u2 == Fin(100 - df[j].d, 100)
        e1 == df[j].t * df[j].t
        e2 == df[i].t * df[i].t
    IN  Pow(u1.n, e1) * Pow(u2.d, e2) < Pow(u2.n, e2) * Pow(u1.d, e1)

ValidSamples(df) == {i \in 1..Len(df) : df[i].t > 0 /\ InsideUnit(df, i)}

\* C12 (as stated): the activation energy build_master_curve uses and reports
\* is the one MaterialCalibrator.fit yields for the same experiment: the same
\* samples selected, the same rate values regressed.
C12_SameEstimateAsFit ==
    MasterOk =>
       LET f == fit("frame", master.df)
       IN  /\ ~f.raised
           /\ Len(f.pool) = Len(master.out.pool)
           /\ \A j \in PoolIndices(master.out.pool) : f.pool[j].i = master.out.pool[j].i
           /\ f.params.Ea = master.out.Ea

\* C12 (amended): build_master_curve uses, in every shift factor, and reports,
\* in every row, the estimate of its own _estimate_activation_energy: the
\* regression of ln(-ln(1 - x) / t) on 1/T_K over the samples with t > 0 and
\* 0 < x < 1, in row order.  MaterialCalibrator.fit is not called.
C12_OwnIntegralEstimate ==
    MasterOk =>
       /\ \A i \in 1..Len(master.df) :
             /\ master.out.rows[i].activation_energy = master.out.Ea
             /\ master.out.a_T[i].Ea = master.out.Ea
       /\ {master.out.pool[j].i : j \in PoolIndices(master.out.pool)} = ValidSamples(master.df)
       /\ \A j \in 1..(Len(master.out.pool) - 1) :
             master.out.pool[j].i < master.out.pool[j + 1].i
       /\ Len(master.out.Ea.X) = Len(master.out.pool)
       /\ Len(master.out.Ea.Y) = Len(master.out.pool)
       /\ \A j \in PoolIndices(master.out.pool) :
             LET smp == master.df[master.out.pool[j].i]
             IN  /\ master.out.Ea.X[j] = Fin(20, 20 * smp.T + 5463)
                 /\ master.out.Ea.Y[j].ln.x = Fin(smp.d, 100)
                 /\ master.out.Ea.Y[j].ln.t = FromInt(smp.t)
                 /\ MasterRateValid(master.out.Ea.Y[j].ln)

\* a curve was built for an experiment on which fit raises or pools other samples
C12_Witness ==
    /\ MasterOk
    /\ LET f == fit("frame", master.df)
       IN  \/ f.raised
           \/ {f.pool[j].i : j \in PoolIndices(f.pool)} # ValidSamples(master.df)

SovsSolved == pc = "sovs_done" /\ sovs.stage = "solved"

\* C13 (as stated): solve returns exactly one density per point of the time
\* grid or fails; when the integrator stops early (status -1) it raises and
\* never returns a shorter array.
C13_FullGridOrError ==
    SovsSolved =>
       /\ ~sovs.out.raised => Len(sovs.out.rho) = Len(sovs.t.v)
       /\ sovs.out.status # 0 => sovs.out.raised

\* C14 (as stated): a solver constructed as SOVSSolver(Ea, A, x0=0.0, dx=1e-3)
\* with Ea > 0 and A > 0 exists and solves from the initial density 0.
C14_ClosedFormFromZeroStart ==
    (sovs.called /\ sovs.kw.x0 = FromInt(0) /\ sovs.kw.dx = Fin(1, 1000)
        /\ GtZero(sovs.kw.Ea) /\ GtZero(sovs.kw.A)) =>
       /\ ~(sovs.stage = "new" /\ sovs.out.raised)
       /\ sovs.self.rho0 = FromInt(0)

\* the call C15 is about: m = 1, A > 0, rho0 in [0, 1), a constant positive
\* temperature on a one-dimensional grid, and a returned sequence
UnitExponentRun ==
    /\ SovsSolved
    /\ ~sovs.out.raised
    /\ sovs.self.m = One
    /\ GtZero(sovs.self.A)
    /\ ~LtZero(sovs.self.rho0) /\ FLess(sovs.self.rho0, One)
    /\ \A i \in 1..Len(sovs.T.v) : GtZero(sovs.T.v[i]) /\ sovs.T.v[i] = sovs.T.v[1]

\* a < b for returned densities: exact values, or values the integrator
\* computed along a solution that rises from rho0
DensityLess(a, b) ==
    IF a.cls = "fin" /\ b.cls = "fin" THEN FLess(a, b)
    ELSE IF a.cls = "fin" THEN b.rate0 = "pos" /\ a = b.rho0
    ELSE b.cls = "rk45" /\ a.rate0 = "pos" /\ FLess(a.t, b.t)

Underflows(Ea, T) == (Ea.n * 500 * T.d) \div (4157 * T.n * Ea.d) > 745

ThetaDone == pc = "theta_done"

\* C16: every estimator (fit, build_master_curve, calculate_log_theta,
\* bootstrap_ea) leaves the tables it was given as they were, whether it
\* returns a result or raises; bootstrap_ea also between its resamples
C16_InputTablesUntouched ==
    /\ FitDone =>
          \A e \in 1..Len(calib.exps) : calib.tables[e] = Table(calib.exps[e])
    /\ MasterDone => master.out.dens = Column(master.df, "d")
    /\ ThetaDone => theta.table = Table(theta.df)
    /\ pc \in {"boot_loop", "boot_done"} =>
          \A e \in 1..Len(boot.experiments) :
             boot.tables[e] = Table(boot.experiments[e])

\* a fit that returned on an experiment given in percent, whose fractions
\* differ from the table's values
C16_Witness ==
    /\ FitDone
    /\ ~calib.out.raised
    /\ \E e \in 1..Len(calib.exps) :
          /\ Len(calib.exps[e]) >= 2
          /\ \E i \in 1..Len(calib.exps[e]) : calib.exps[e][i].d = 50
          /\ calib.tables[e].d = Column(calib.exps[e], "d")

(***************************************************************************)
(* C17                                                                     *)
(***************************************************************************)
\* the call names an activation energy that line 28-30 binds: the parameter
\* itself, or an alias with a non-zero value
EnergyBound(args) ==
    \/ args.energia # Absent
    \/ args.Ea_kJ # Absent /\ args.Ea_kJ.n # 0
    \/ args.Ea_kj # Absent /\ args.Ea_kj.n # 0

ColumnMissing(columns) ==
    \E prefix \in {"Time_s", "Temperature_C", "DensidadePct"} :
       \A i \in 1..Len(columns) : columns[i].base # prefix

\* C17: with the activation energy bound, calculate_log_theta raises
\* ValueError and returns no table exactly when a column with one of the
\* three prefixes is missing or the experiment has fewer than 2 samples; a
\* missing column is reported first, whatever the number of samples
C17_ValueErrorOnMissingColumnOrShortRun ==
    (ThetaDone /\ EnergyBound(theta.args)) =>
        LET missing == ColumnMissing(theta.columns)
            short == Len(theta.df) < 2
        IN  /\ theta.out.raised <=> (missing \/ short)
            /\ theta.out.raised =>
                  /\ theta.out.error = "ValueError"
                  /\ theta.out.rows = <<>>
            /\ missing => theta.out.msg = "Required columns missing"
            /\ (short /\ ~missing) =>
                  theta.out.msg = "Insufficient data for integration"

\* a run of at least two samples without one of its columns, rejected with
\* ValueError
C17_Witness ==
    /\ ThetaDone
    /\ EnergyBound(theta.args)
    /\ Len(theta.df) >= 2
    /\ ColumnMissing(theta.columns)
    /\ theta.out.raised
    /\ theta.out.error = "ValueError"

(***************************************************************************)
(* C18                                                                     *)
(***************************************************************************)
NonDecreasingTime(df) == \A i \in 1..(Len(df) - 1) : df[i].t <= df[i + 1].t

\* a call that passes the argument and column checks on a run of at least 2
\* samples in time order (temperatures are 100 C and above)
ThetaOnOrderedRun ==
    /\ ThetaDone
    /\ EnergyBound(theta.args)
    /\ ~ColumnMissing(theta.columns)
    /\ Len(theta.df) >= 2
    /\ NonDecreasingTime(theta.df)

\* C18: for a run of at least 2 samples with non-decreasing time and positive
\* absolute temperature calculate_log_theta returns one row per sample, in
\* order, and every logtheta is a finite number; the integral is zero at the
\* first sample and at every sample taken at the same time as the first, and
\* exactly there the logarithm is taken of the smallest positive float
C18_OneRowPerSampleNoNaN ==
    ThetaOnOrderedRun =>
        /\ ~theta.out.raised
        /\ Len(theta.out.rows) = Len(theta.df)
        /\ \A i \in 1..Len(theta.df) :
              LET row == theta.out.rows[i]
              IN  /\ row.logtheta.cls = "fin"
                  /\ (row.logtheta.of = "tiny") <=> (theta.df[i].t = theta.df[1].t)
                  /\ row.valor = FromInt(theta.df[i].d)
                  /\ row.tempo_s = FromInt(theta.df[i].t)
        /\ theta.out.rows[1].logtheta.of = "tiny"

\* a run whose second sample repeats the time of the first (zero integral
\* twice) and whose last sample is later (positive integral)
C18_Witness ==
    /\ ThetaOnOrderedRun
    /\ Len(theta.df) >= 3
    /\ theta.df[2].t = theta.df[1].t
    /\ theta.df[Len(theta.df)].t > theta.df[1].t
    /\ \A i \in 1..Len(theta.df) : theta.out.rows[i].logtheta.cls = "fin"

(***************************************************************************)
(* C19                                                                     *)
(***************************************************************************)
\* the call passes the energy through exactly one alias and nothing else
AliasOnly(args) ==
    /\ args.energia = Absent
    /\ (args.Ea_kJ = Absent) # (args.Ea_kj = Absent)

AliasValue(args) == IF args.Ea_kJ # Absent THEN args.Ea_kJ ELSE args.Ea_kj

\* C19: a call that passes the energy as Ea_kJ or Ea_kj gives what the call
\* with the same value as energia_ativacao_kj gives, for every value
\* including 0, and TypeError is raised only when none of the names is given
C19_AliasEquivalent ==
    ThetaDone =>
        /\ AliasOnly(theta.args) =>
              theta.out = calculate_log_theta(theta.df, theta.columns,
                                              Positional(AliasValue(theta.args)))
        /\ (theta.out.raised /\ theta.out.error = "TypeError") =>
              /\ theta.args.energia = Absent
              /\ theta.args.Ea_kJ = Absent
              /\ theta.args.Ea_kj = Absent

(***************************************************************************)
(* C20                                                                     *)
(***************************************************************************)
\* C20: whenever the core returns a table to the /calc-master handler the
\* client receives it (status 200) with every logtheta either a number that
\* is not NaN or null: a NaN of the core has been replaced by null
C20_NaNReplacedByNull ==
    (pc = "api_done" /\ ~api.df_out.raised) =>
        /\ api.response.status = 200
        /\ Len(api.response.body.logtheta) = Len(api.df_out.rows)
        /\ \A i \in 1..Len(api.df_out.rows) :
              IF api.df_out.rows[i].logtheta.cls = "nan"
              THEN api.response.body.logtheta[i] = Null
              ELSE api.response.body.logtheta[i] = api.df_out.rows[i].logtheta

(***************************************************************************)
(* C21                                                                     *)
(***************************************************************************)
\* the core function called by the endpoint raised (an HTTPException comes
\* from the handler's own test, not from the core)
CoreRaised ==
    \/ pc = "api_done" /\ api.df_out.raised
    \/ pc = "route_done" /\ api.result.raised /\ api.result.error # "HTTPException"

\* C21: whenever a core function called from an endpoint raises, the client
\* is answered with a client-error status (4xx)
C21_CoreExceptionsBecomeClientErrors ==
    CoreRaised => api.response.status \in 400..499

(***************************************************************************)
(* C22                                                                     *)
(***************************************************************************)
\* the step is a status query
StatusStep == pc = "fem" /\ pc' = "fem" /\ fem'.op = "status"

Terminal == {"completed", "failed"}

\* C28: when the background task of a job accepted by POST /fem/simulation
\* has ended, the job's status file holds "completed" or "failed", so that a
\* status query no longer answers "pending"
C28_AcceptedJobEndsTerminal ==
    pc = "fem" =>
        \A job_id \in fem.accepted :
           fem.tasks[job_id].state = "ended" =>
              /\ fem.files[job_id].exists
              /\ fem.files[job_id].content.status \in Terminal

(***************************************************************************)
(* FinalReportModule                                                       *)
(***************************************************************************)
ReportEnded == report.called /\ report.at = "ended"

\* C23: _on_generate_report never propagates an exception: every failure
\* while generating the report is caught and shown as an error message in
\* report_html, and on success report_html holds the rendered report.
C23_HandlerNeverPropagates ==
    ReportEnded =>
        /\ ~report.raised
        /\ report.body.raised => report.report_html = ErrorHtml(report.body.error)
        /\ ~report.body.raised => report.report_html = RenderedHtml

\* C29: with an on_busy callback configured, the on_busy(True, ...) of the
\* handler is followed by exactly one on_busy(False, "") before the handler
\* ends, whether or not an exception leaves the handler; until then no
\* on_busy(False, "") has been issued.
C29_BusyAlwaysCleared ==
    (report.called /\ report.version = "src" /\ report.on_busy) =>
        IF report.at = "ended"
        THEN report.busy = <<TRUE, FALSE>>
        ELSE report.busy = <<TRUE>>

\* the handler has ended with the exception raised inside its except block,
\* and the callback has been told that the work is over
C29_Witness ==
    /\ ReportEnded
    /\ report.version = "src" /\ report.on_busy
    /\ report.raised
    /\ report.busy = <<TRUE, FALSE>>

(***************************************************************************)
(* simulate_synthetic                                                      *)
(***************************************************************************)
\* C24: simulate_synthetic returns a table with exactly the columns Time_s,
\* Temperature_C and DensidadePct, one row per element of time_array, every
\* density within [0, 100] and the same temperature in every row.
C24_SyntheticTableIsothermal ==
    synth.called =>
        /\ synth.out.columns = <<"Time_s", "Temperature_C", "DensidadePct">>
        /\ Len(synth.out.rows) = Len(synth.time_array)
        /\ \A i \in DOMAIN synth.out.rows :
              /\ synth.out.rows[i].DensidadePct \in {"zero", "in (0,100]"}
              /\ synth.out.rows[i].Temperature_C = synth.out.rows[1].Temperature_C

(***************************************************************************)
(* densify_mesh_async                                                      *)
(***************************************************************************)
OneSet(result) == (result.densities = "None") # (result.error = "None")

BothNone(result) == result.densities = "None" /\ result.error = "None"

\* what holds once the worker thread has finished
FinishedState ==
    ~worker.alive =>
        /\ OneSet(worker.result)
        /\ worker.calls = IF worker.callback THEN <<worker.result>> ELSE <<>>

\* C25: once the worker thread has finished exactly one of densities and
\* error is set and the callback, when given, was invoked exactly once with
\* that dictionary; until the thread finishes both entries read None.
C25_NoneUntilThreadFinishes ==
    worker.called =>
        /\ FinishedState
        /\ worker.alive => BothNone(worker.result)

\* C25, amended: both entries read None until the worker stores its outcome;
\* from the store on exactly one is set, the thread still being alive; the
\* callback, when given, is invoked once with the dictionary as stored, not
\* before the store, and has been invoked when the thread has finished.
C25_NoneUntilStored ==
    worker.called =>
        /\ FinishedState
        /\ worker.at = "started" => BothNone(worker.result) /\ worker.calls = <<>>
        /\ worker.at = "stored" => OneSet(worker.result) /\ worker.calls = <<>>
        /\ worker.at = "notified" =>
              /\ worker.alive
              /\ OneSet(worker.result)
              /\ worker.calls = IF worker.callback THEN <<worker.result>> ELSE <<>>

\* the thread has finished after a failure of densify_mesh, the callback
\* has been invoked once with the dictionary holding the error
C25_Witness ==
    /\ worker.called /\ ~worker.alive
    /\ worker.callback
    /\ worker.result.error # "None" /\ worker.result.densities = "None"
    /\ worker.calls = <<worker.result>>

(***************************************************************************)
(* DataHistory                                                             *)
(***************************************************************************)
\* the stored history as a reader sees it: each snapshot with the content
\* of its DataFrame
Stored(h) ==
    [i \in 1..Len(h.lists[1]) |->
        [module |-> h.lists[1][i].module, data |-> h.frames[h.lists[1][i].data]]]

HistoryStep(op) == pc = "hist" /\ pc' = "hist" /\ hist'.op = op /\ hist' # hist

\* C26: pop returns and removes the most recent snapshot, peek returns the
\* same snapshot and leaves the history unchanged, both return None on an
\* empty history, and a change to the list returned by get_all or to a
\* DataFrame after it was pushed never alters the stored history.
C26_SnapshotsIsolated ==
    [][
        /\ (pc = "hist" /\ pc' = "hist" /\ hist'.op = "pop") =>
             (IF hist.lists[1] = <<>>
              THEN hist'.ret = "None" /\ Stored(hist') = <<>>
              ELSE /\ hist'.ret = hist.lists[1][Len(hist.lists[1])]
                   /\ Stored(hist') = SubSeq(Stored(hist), 1, Len(hist.lists[1]) - 1))
        /\ (pc = "hist" /\ pc' = "hist" /\ hist'.op = "peek") =>
             /\ Stored(hist') = Stored(hist)
             /\ hist'.ret = (IF hist.lists[1] = <<>> THEN "None"
                             ELSE hist.lists[1][Len(hist.lists[1])])
        /\ (HistoryStep("write") \/ HistoryStep("remove")) =>
             Stored(hist') = Stored(hist)
      ]_vars

\* the caller has written into its DataFrame after pushing it: the snapshot
\* holds the old content
C26_Witness ==
    /\ pc = "hist"
    /\ hist.op = "write"
    /\ hist.lists[1] # <<>>
    /\ \E i \in DOMAIN hist.lists[1] : hist.frames[hist.lists[1][i].data] # hist.frames[1]

(***************************************************************************)
(* fit: the finite difference                                              *)
(***************************************************************************)
Fraction(s) == FDiv(FromInt(s.d), FromInt(100))

\* the backward difference at sample b, whose predecessor is sample a
BackwardRate(a, b) ==
    FDiv(FDiv(FSub(Fraction(b), Fraction(a)), FSub(FromInt(b.t), FromInt(a.t))),
         FSub(One, Fraction(b)))

\* C27: the rate of a pooled point is the backward difference at its sample
\* i, (x_i - x_{i-1}) / (t_i - t_{i-1}) divided by (1 - x_i), paired with the
\* temperature of the same sample i.
C27_BackwardDifferenceAtSample ==
    FitDone =>
        \A j \in PoolIndices(calib.out.pool) :
            LET p == calib.out.pool[j]
                a == calib.exps[p.e][p.i]
                b == calib.exps[p.e][p.i + 1]
            IN  /\ p.k = BackwardRate(a, b)
                /\ p.T = ToKelvin(FromInt(b.T))

(***************************************************************************)
(* check_versions                                                          *)
(***************************************************************************)
\* the installed release meets the minimum, compared number by number
MeetsMinimum(env, pkg) ==
    LET have == CASE pkg = "numpy" -> env.numpy [] pkg = "pandas" -> env.pandas
                  [] pkg = "scipy" -> env.scipy [] pkg = "pytest" -> env.pytest
    IN  have # NotInstalled /\ SeqGe(have.release, REQUIRED_PKGS[pkg].release)

\* C30: check_versions returns True only if the Python version and every
\* required package meet the minimum versions, and returns False whenever a
\* required package is missing or below its required version.
C30_TrueOnlyWhenAllMinimumsMet ==
    diag.called =>
        (diag.out.ok =>
            /\ SeqGe(diag.env.py, REQUIRED_PY)
            /\ \A i \in 1..Len(Packages) : MeetsMinimum(diag.env, Packages[i]))

====
